---------------------------- MODULE Spec2Model ----------------------------
(***************************************************************************)
(* karton: the buffered pattern listener (src/src/package.ts), the process *)
(* output driver built on it (src/src/process-driver.ts), the retry engine *)
(* (src/src/async.ts) and the sandbox's child-process tracking and         *)
(* directory (src/unnamed/part_001, the sandbox module).                   *)
(*                                                                         *)
(* Text is a sequence of one-character strings; a chunk is a text; a       *)
(* pattern is the array of candidate texts (a single string is the         *)
(* one-element array, process-driver.ts line 76).                          *)
(***************************************************************************)
EXTENDS Integers, Sequences, FiniteSets, TLC

VARIABLES
  listeners,       \* process-driver.ts: listeners[output], the current BufferedListener
  waits,           \* process-driver.ts: one record per waitForOutputIncludes call
  unconsumed,      \* history: per output, the text left over by the last match and since
  nChunks,         \* history: the number of chunks the process has written so far
  childProcesses,  \* sandbox: the Set<ChildProcess> of tracked children
  procs,           \* sandbox: the ChildProcess handles created so far
  kills,           \* sandbox: per child, the sandbox.kill call on it (one at a time)
  execs,           \* sandbox: one record per sandbox.exec call
  sweep,           \* sandbox: the sandbox.reset / sandbox.cleanup call under way
  fs,              \* sandbox: the sandbox directory (context) on the disk
  bl,              \* package.ts: a BufferedListener used on its own
  cbs,             \* history: the callbacks invoked on the waiters handed to bl.apply
  mcalls,          \* history: the number of invocations of a matcher handed to bl.apply
  applies,         \* history: one record per bl.apply call (the waiter's number is its place)
  nOps,            \* history: the number of calls made on bl
  lastCall,        \* history: the last call made on bl
  rt,              \* async.ts: a retry(effect, logger, options) call used on its own
  pf,              \* sandbox: one file of the sandbox and the sandbox.patch call on it
  inst             \* sandbox: the manifest, the lock cache and the sandbox.install call

driverVars == <<listeners, waits, unconsumed, nChunks>>
sandboxVars == <<childProcesses, procs, kills, execs, sweep, fs>>
listenerVars == <<bl, cbs, mcalls, applies, nOps, lastCall>>
moreVars == <<pf, inst>>
unitVars == <<listenerVars, rt, moreVars>>
vars == <<listeners, waits, unconsumed, nChunks, childProcesses, procs, kills, execs, sweep, fs,
          bl, cbs, mcalls, applies, nOps, lastCall, rt, pf, inst>>

(***************************************************************************)
(* Bounds of the model.                                                    *)
(***************************************************************************)
MaxChunks == 3
MaxWaits == 2
MaxProcs == 2
MaxOps == 4
MaxWaiters == 2
MaxRetries == 3
MaxSweeps == 2

\* type ProcessOutput = "stdout" | "stderr" (process-driver.ts line 17)
Outputs == {"stdout", "stderr"}

\* The chunks a stream delivers (after stripAnsi) and the patterns a caller waits
\* for: one string, or an array of candidates.
Chunks == { <<"a">>, <<"b">>, <<"a", "b">> }
Patterns == { << <<"a">> >>, << <<"a", "b">> >>, << <<"a">>, <<"b">> >> }

(***************************************************************************)
(* String primitives of the JavaScript runtime, as the code uses them.     *)
(***************************************************************************)
SetMin(S) == CHOOSE x \in S : \A y \in S : x <= y

Max2(a, b) == IF a >= b THEN a ELSE b

\* String.prototype.indexOf: the 0-based place of the first occurrence, or -1.
IndexOf(chunk, string) ==
  LET places == { i \in 0..(Len(chunk) - Len(string)) :
                    SubSeq(chunk, i + 1, i + Len(string)) = string }
  IN IF places = {} THEN -1 ELSE SetMin(places)

\* String.prototype.slice(index): the text from the 0-based index on.
Slice(chunk, index) == SubSeq(chunk, index + 1, Len(chunk))

\* String.prototype.includes.
Includes(text, string) == IndexOf(text, string) # -1

RECURSIVE Concat(_)
Concat(buffer) ==
  IF buffer = <<>> THEN <<>> ELSE Head(buffer) \o Concat(Tail(buffer))

Undefined == [def |-> FALSE, val |-> <<>>]
Defined(text) == [def |-> TRUE, val |-> text]

\* JavaScript truthiness of string | undefined: the empty string is falsy.
Truthy(x) == x.def /\ x.val # <<>>

(***************************************************************************)
(* process-driver.ts, lines 74-91: the matcher a wait hands to apply.      *)
(***************************************************************************)
\* strings.forEach(...): index = Math.max(index, stringIndex === -1 ? -1 : stringIndex + string.length)
RECURSIVE MatchIndexFrom(_, _, _)
MatchIndexFrom(index, strings, chunk) ==
  IF strings = <<>> THEN index
  ELSE LET string == Head(strings)
           stringIndex == IndexOf(chunk, string)
       IN MatchIndexFrom(
            Max2(index, IF stringIndex = -1 THEN -1 ELSE stringIndex + Len(string)),
            Tail(strings), chunk)

MatchIndex(pattern, chunk) == MatchIndexFrom(-1, pattern, chunk)

\* What the matcher does with one chunk: the calls it makes on the listener it is
\* given (listener.resolve() of a Listener<void>), and the value it returns (the
\* unconsumed tail, or undefined).
Matcher(pattern, chunk) ==
  LET index == MatchIndex(pattern, chunk)
  IN IF index # -1
       THEN [calls |-> << [kind |-> "resolve", value |-> "void"] >>,
             ret |-> Defined(Slice(chunk, index))]
       ELSE [calls |-> << >>, ret |-> Undefined]

\* A matcher as apply receives it, (chunk, listener) => TChunk | undefined
\* (package.ts line 102). kind "includes" is the driver's matcher over `strings`.
\* kind "calls" is a caller's matcher: on a chunk that includes `hit` it makes
\* `calls` on the listener and returns the rest after the hit ("rest"), the chunk
\* ("chunk"), the empty text ("empty") or undefined; on any other chunk it makes
\* no call and returns the chunk (miss = "chunk") or undefined.
IncludesMatcher(strings) == [kind |-> "includes", strings |-> strings]

CallMatcher(matcher, chunk) ==
  IF matcher.kind = "includes" THEN Matcher(matcher.strings, chunk)
  ELSE IF Includes(chunk, matcher.hit)
    THEN [calls |-> matcher.calls,
          ret |-> CASE matcher.ret = "rest" ->
                         Defined(Slice(chunk, IndexOf(chunk, matcher.hit) + Len(matcher.hit)))
                    [] matcher.ret = "chunk" -> Defined(chunk)
                    [] matcher.ret = "empty" -> Defined(<< >>)
                    [] OTHER -> Undefined]
  ELSE [calls |-> << >>,
        ret |-> IF matcher.miss = "chunk" THEN Defined(chunk) ELSE Undefined]

(***************************************************************************)
(* package.ts, lines 108-214: createBufferedListener.                      *)
(*   waiter: the resolve/reject closure variables (0: unset)               *)
(*   bound:  the rebound ingest of lines 179-191, with the waiter and the  *)
(*           matcher of the apply call that rebound it                     *)
(***************************************************************************)
NoBinding == [on |-> FALSE, waiter |-> 0, matcher |-> <<>>]

CreateBufferedListener(buffer) ==
  [status |-> "pending", resolved |-> "undefined", rejected |-> "undefined",
   buffer |-> buffer, waiter |-> 0, bound |-> NoBinding]

\* ingestListener.resolve / reject (lines 153-166): the status changes, no callback runs.
IngestListenerCallUnguarded(L, call) ==
  IF call.kind = "resolve"
    THEN [L EXCEPT !.resolved = call.value, !.status = "resolved"]
    ELSE [L EXCEPT !.rejected = call.value, !.status = "rejected"]

IngestListenerCall(L, call) ==
  IF L.status = "pending" /\ call.kind = "resolve"
    THEN [L EXCEPT !.resolved = call.value, !.status = "resolved"]
  ELSE IF L.status = "pending" /\ call.kind = "reject"
    THEN [L EXCEPT !.rejected = call.value, !.status = "rejected"]
  ELSE L

\* The calls one invocation of the matcher makes on ingestListener, in order.
RECURSIVE IngestListenerCalls(_, _)
IngestListenerCalls(L, calls) ==
  IF calls = << >> THEN L
  ELSE IngestListenerCalls(IngestListenerCall(L, Head(calls)), Tail(calls))

\* The switch of lines 139-145 and of applyStatusChange (lines 168-177): the
\* callback of the waiter `w` it invokes on a listener that is not pending.
ApplyStatusChange(L, w) ==
  CASE L.status = "resolved" -> << [waiter |-> w, kind |-> "resolve", value |-> L.resolved] >>
    [] L.status = "rejected" -> << [waiter |-> w, kind |-> "reject", value |-> L.rejected] >>
    [] OTHER -> << >>

\* bufferedListener.resolve(value) (lines 115-124): the closure variable `resolve`
\* holds the callback of the waiter L.waiter (0: unset).
ListenerResolve(L, value) ==
  IF L.status = "pending"
    THEN [listener |-> [L EXCEPT !.resolved = value, !.status = "resolved"],
          calls |-> IF L.waiter # 0
                      THEN << [waiter |-> L.waiter, kind |-> "resolve", value |-> value] >>
                      ELSE << >>]
    ELSE [listener |-> L, calls |-> << >>]

\* bufferedListener.reject(error) (lines 125-134).
ListenerReject(L, error) ==
  IF L.status = "pending"
    THEN [listener |-> [L EXCEPT !.rejected = error, !.status = "rejected"],
          calls |-> IF L.waiter # 0
                      THEN << [waiter |-> L.waiter, kind |-> "reject", value |-> error] >>
                      ELSE << >>]
    ELSE [listener |-> L, calls |-> << >>]

\* bufferedListener.ingest: the plain push (lines 135-137) or the rebound one (179-191).
ListenerIngestOnlyWhilePending(L, chunk) ==
  IF L.status # "pending" THEN [listener |-> L, calls |-> << >>]
  ELSE IF ~L.bound.on
    THEN [listener |-> [L EXCEPT !.buffer = Append(@, chunk)], calls |-> << >>]
  ELSE LET r == CallMatcher(L.bound.matcher, chunk)
           L1 == IngestListenerCalls(L, r.calls)
           L2 == IF Truthy(r.ret) THEN [L1 EXCEPT !.buffer = Append(@, r.ret.val)] ELSE L1
       IN [listener |-> L2, calls |-> ApplyStatusChange(L2, L.bound.waiter)]

ListenerIngest(L, chunk) ==
  IF ~L.bound.on
    THEN [listener |-> [L EXCEPT !.buffer = Append(@, chunk)], calls |-> << >>]
  ELSE IF L.status = "pending"
    THEN LET r == CallMatcher(L.bound.matcher, chunk)
             L1 == IngestListenerCalls(L, r.calls)
             L2 == IF Truthy(r.ret) THEN [L1 EXCEPT !.buffer = Append(@, r.ret.val)] ELSE L1
         IN [listener |-> L2, calls |-> ApplyStatusChange(L2, L.bound.waiter)]
  ELSE [listener |-> [L EXCEPT !.buffer = Append(@, chunk)], calls |-> << >>]

\* "process buffer" (lines 194-202): map each buffered chunk through the matcher
\* while the status is pending, keep the others, drop the undefined results.
RECURSIVE ProcessBuffer(_, _, _, _)
ProcessBuffer(L, matcher, rest, out) ==
  IF rest = <<>> THEN [L EXCEPT !.buffer = out]
  ELSE IF L.status = "pending"
    THEN LET r == CallMatcher(matcher, Head(rest))
         IN ProcessBuffer(IngestListenerCalls(L, r.calls), matcher, Tail(rest),
                          IF r.ret.def THEN Append(out, r.ret.val) ELSE out)
  ELSE ProcessBuffer(L, matcher, Tail(rest), Append(out, Head(rest)))

\* bufferedListener.apply(listener) (lines 138-150), no matcher given.
ListenerApplyPlain(L, w) ==
  [listener |-> IF L.status = "pending" THEN [L EXCEPT !.waiter = w] ELSE L,
   calls |-> ApplyStatusChange(L, w)]

ListenerApplySkipsReplay(L, w, matcher) ==
  LET L1 == IF L.status = "pending" THEN [L EXCEPT !.waiter = w] ELSE L
      L2 == [L1 EXCEPT !.bound = [on |-> TRUE, waiter |-> w, matcher |-> matcher]]
  IN [listener |-> L2, calls |-> ApplyStatusChange(L, w) \o ApplyStatusChange(L2, w)]

ListenerApplyKeepsFirst(L, w, matcher) ==
  IF L.status = "pending" /\ L.bound.on THEN [listener |-> L, calls |-> << >>]
  ELSE LET first == ApplyStatusChange(L, w)
           L1 == IF L.status = "pending" THEN [L EXCEPT !.waiter = w] ELSE L
           L2 == [L1 EXCEPT !.bound = [on |-> TRUE, waiter |-> w, matcher |-> matcher]]
           L3 == ProcessBuffer(L2, matcher, L2.buffer, << >>)
       IN [listener |-> L3, calls |-> first \o ApplyStatusChange(L3, w)]

\* bufferedListener.apply(listener, ingest) (lines 138-206) with a matcher.
ListenerApply(L, w, matcher) ==
  LET first == ApplyStatusChange(L, w)
      L1 == IF L.status = "pending" THEN [L EXCEPT !.waiter = w] ELSE L
      L2 == [L1 EXCEPT !.bound = [on |-> TRUE, waiter |-> w, matcher |-> matcher]]
      L3 == ProcessBuffer(L2, matcher, L2.buffer, << >>)
  IN [listener |-> L3, calls |-> first \o ApplyStatusChange(L3, w)]

(***************************************************************************)
(* async.ts, lines 16-38: retry(effect, logger, options).                  *)
(*   rt: one retry call                                                    *)
(*     pc:      "idle" (not called), "effect" (await effect()), "waiting"  *)
(*              (await wait(delay)), "done"                                *)
(*     retries: the constant of line 21; retry: the loop variable          *)
(*     lastError, log: the variable of line 24 and the logger's lines      *)
(*     result:  "returned" with `value`, or "thrown" with `error`          *)
(*     invocations, inFlight: history, the calls of effect made and those  *)
(*              not yet settled; errors: history, the errors it raised     *)
(***************************************************************************)
\* options.retries || 3 (async.ts line 21); 0 stands for an option left out.
DefaultRetries == 3
RetriesOf(option) == IF option = 0 THEN DefaultRetries ELSE option

EffectErrors == {"e1", "e2", "e3"}
EffectValues == {"v1", "v2"}

\* retry <= retries, the condition of the loop of line 26.
LoopContinuesBelow(retry, retries) == retry < retries

LoopContinuesOnceMore(retry, retries) == retry <= retries + 1

LoopContinues(retry, retries) == retry <= retries

\* The head of the loop (line 26) and what follows: effect() is called and awaited
\* (line 28), or the loop is left and lastError thrown (line 37).
RetryLoop(r) ==
  IF LoopContinues(r.retry, r.retries)
    THEN [r EXCEPT !.pc = "effect", !.invocations = @ + 1, !.inFlight = @ + 1]
    ELSE [r EXCEPT !.pc = "done", !.result = "thrown", !.error = r.lastError]

\* The catch block, lines 29-33, up to the await of the delay.
RetryCatchKeepsFirst(r, error) ==
  [r EXCEPT !.log = @ \o << [line |-> "error", error |-> error, retry |-> 0, retries |-> 0],
                            [line |-> "Retry", error |-> "none", retry |-> r.retry,
                             retries |-> r.retries] >>,
            !.lastError = IF @ = "undefined" THEN error ELSE @,
            !.pc = "waiting"]

RetryCatch(r, error) ==
  [r EXCEPT !.log = @ \o << [line |-> "error", error |-> error, retry |-> 0, retries |-> 0],
                            [line |-> "Retry", error |-> "none", retry |-> r.retry,
                             retries |-> r.retries] >>,
            !.lastError = error,
            !.pc = "waiting"]

NoRetry ==
  [pc |-> "idle", option |-> 0, retries |-> 0, retry |-> 0, lastError |-> "undefined",
   log |-> << >>, result |-> "pending", value |-> "undefined", error |-> "undefined",
   invocations |-> 0, inFlight |-> 0, errors |-> << >>]

\* retry(effect, logger, {retries: option}) is called: lines 21-28.
RetryCall(option) ==
  /\ rt.pc = "idle"
  /\ rt' = RetryLoop([rt EXCEPT !.option = option, !.retries = RetriesOf(option), !.retry = 1])
  /\ UNCHANGED <<listenerVars, moreVars, driverVars, sandboxVars>>

\* The promise of effect() resolves: return await effect() (line 28).
EffectResolves(value) ==
  /\ rt.pc = "effect"
  /\ rt' = [rt EXCEPT !.pc = "done", !.result = "returned", !.value = value,
                      !.inFlight = @ - 1]
  /\ UNCHANGED <<listenerVars, moreVars, driverVars, sandboxVars>>

\* The promise of effect() rejects, or effect throws: the catch block runs.
EffectRejects(error) ==
  /\ rt.pc = "effect"
  /\ rt' = RetryCatch([rt EXCEPT !.inFlight = @ - 1, !.errors = Append(@, error)], error)
  /\ UNCHANGED <<listenerVars, moreVars, driverVars, sandboxVars>>

\* The delay of line 33 has passed: ++retry and the head of the loop again.
DelayElapsed ==
  /\ rt.pc = "waiting"
  /\ rt' = RetryLoop([rt EXCEPT !.retry = @ + 1])
  /\ UNCHANGED <<listenerVars, moreVars, driverVars, sandboxVars>>

InitRetry == rt = NoRetry

NextRetry ==
  \/ \E option \in 0..MaxRetries : RetryCall(option)
  \/ \E value \in EffectValues : EffectResolves(value)
  \/ \E error \in EffectErrors : EffectRejects(error)
  \/ DelayElapsed

(***************************************************************************)
(* A BufferedListener<string, string> used on its own: a caller makes any  *)
(* sequence of resolve, reject, ingest and apply calls on bl. The waiters  *)
(* it hands to apply only record that they were called.                    *)
(***************************************************************************)
Values == {"v1", "v2"}
Errors == {"e1", "e2"}

Matchers ==
  { IncludesMatcher(<< <<"a">> >>),
    [kind |-> "calls", hit |-> <<"a">>, ret |-> "rest", miss |-> "undefined",
     calls |-> << [kind |-> "resolve", value |-> "v1"] >>],
    [kind |-> "calls", hit |-> <<"b">>, ret |-> "undefined", miss |-> "chunk",
     calls |-> << [kind |-> "reject", value |-> "e1"] >>],
    [kind |-> "calls", hit |-> <<"a">>, ret |-> "chunk", miss |-> "undefined",
     calls |-> << [kind |-> "resolve", value |-> "v2"], [kind |-> "reject", value |-> "e2"] >>],
    [kind |-> "calls", hit |-> <<"b">>, ret |-> "empty", miss |-> "chunk",
     calls |-> << >>] }

\* The number of chunks of `rest` that "process buffer" hands to the matcher.
RECURSIVE MatcherCalls(_, _, _)
MatcherCalls(L, matcher, rest) ==
  IF rest = << >> \/ L.status # "pending" THEN 0
  ELSE 1 + MatcherCalls(IngestListenerCalls(L, CallMatcher(matcher, Head(rest)).calls),
                        matcher, Tail(rest))

\* bl.resolve(value)
BufferedListenerResolve(value) ==
  /\ nOps < MaxOps
  /\ LET r == ListenerResolve(bl, value)
     IN bl' = r.listener /\ cbs' = cbs \o r.calls
  /\ nOps' = nOps + 1
  /\ lastCall' = [op |-> "resolve", arg |-> value]
  /\ UNCHANGED <<mcalls, applies, rt, moreVars, driverVars, sandboxVars>>

\* bl.reject(error)
BufferedListenerReject(error) ==
  /\ nOps < MaxOps
  /\ LET r == ListenerReject(bl, error)
     IN bl' = r.listener /\ cbs' = cbs \o r.calls
  /\ nOps' = nOps + 1
  /\ lastCall' = [op |-> "reject", arg |-> error]
  /\ UNCHANGED <<mcalls, applies, rt, moreVars, driverVars, sandboxVars>>

\* bl.ingest(chunk)
BufferedListenerIngest(chunk) ==
  /\ nOps < MaxOps
  /\ LET r == ListenerIngest(bl, chunk)
     IN bl' = r.listener /\ cbs' = cbs \o r.calls
  /\ mcalls' = IF bl.bound.on /\ bl.status = "pending" THEN mcalls + 1 ELSE mcalls
  /\ nOps' = nOps + 1
  /\ lastCall' = [op |-> "ingest", arg |-> chunk]
  /\ UNCHANGED <<applies, rt, moreVars, driverVars, sandboxVars>>

\* bl.apply(waiter) and bl.apply(waiter, matcher), for a new waiter.
BufferedListenerApply(given, matcher) ==
  /\ nOps < MaxOps
  /\ Len(applies) < MaxWaiters
  /\ LET w == Len(applies) + 1
         r == IF given THEN ListenerApply(bl, w, matcher) ELSE ListenerApplyPlain(bl, w)
     IN /\ bl' = r.listener
        /\ cbs' = cbs \o r.calls
        /\ mcalls' = IF given THEN mcalls + MatcherCalls(bl, matcher, bl.buffer) ELSE mcalls
        /\ applies' = Append(applies, [status |-> bl.status, given |-> given])
  /\ nOps' = nOps + 1
  /\ lastCall' = [op |-> "apply", arg |-> << >>]
  /\ UNCHANGED <<rt, moreVars, driverVars, sandboxVars>>

NextListener ==
  \/ \E value \in Values : BufferedListenerResolve(value)
  \/ \E error \in Errors : BufferedListenerReject(error)
  \/ \E chunk \in Chunks : BufferedListenerIngest(chunk)
  \/ \E matcher \in Matchers : BufferedListenerApply(TRUE, matcher)
  \/ BufferedListenerApply(FALSE, << >>)

(***************************************************************************)
(* process-driver.ts, lines 19-102: createProcessDriver.                   *)
(*   A wait is the promise of one waitForOutputIncludes call:              *)
(*     promise: pending | resolved | rejected (a promise settles once)     *)
(*     timer:   armed | cleared | fired (the setTimeout of lines 48-54)    *)
(*     seen:    history, the text the wait was given to search: the buffer *)
(*              it replayed and the chunks ingested while it was attached  *)
(***************************************************************************)
NoError == [kind |-> "none", pattern |-> << >>, output |-> "none"]

\* new Error(`Exceeded time on waiting for "${pattern}" to appear in the ${output}.`)
TimeoutError(pattern, output) == [kind |-> "Timeout", pattern |-> pattern, output |-> output]

\* resolve() / reject(error) of the promise executor: a settled promise stays as it is.
Settle(wait, outcome, error) ==
  IF wait.promise = "pending"
    THEN [wait EXCEPT !.promise = outcome, !.error = error]
    ELSE wait

\* clearTimeout(timeoutId): a timer that has fired or was cleared is left alone.
ClearTimeoutForgotten(wait) == wait

ClearTimeout(wait) ==
  IF wait.timer = "armed" THEN [wait EXCEPT !.timer = "cleared"] ELSE wait

\* listeners[output] = createBufferedListener(listeners[output].buffer)
RearmWithoutBuffer(L) == CreateBufferedListener(<< >>)

Rearm(L) == CreateBufferedListener(L.buffer)

WaiterResolveRearmsAll(d, w) ==
  [listeners |-> [o \in Outputs |-> Rearm(d.listeners[o])],
   waits |-> [d.waits EXCEPT ![w] = Settle(ClearTimeout(@), "resolved", NoError)]]

\* The waiter's resolve callback (lines 58-64), run on the driver state d.
WaiterResolve(d, w) ==
  LET o == d.waits[w].output
  IN [listeners |-> [d.listeners EXCEPT ![o] = Rearm(d.listeners[o])],
      waits |-> [d.waits EXCEPT ![w] = Settle(ClearTimeout(@), "resolved", NoError)]]

\* The waiter's reject callback (lines 65-71).
WaiterReject(d, w) ==
  LET o == d.waits[w].output
  IN [listeners |-> [d.listeners EXCEPT ![o] = Rearm(d.listeners[o])],
      waits |-> [d.waits EXCEPT ![w] =
                   Settle(ClearTimeout(@), "rejected",
                          [kind |-> "error", pattern |-> << >>, output |-> "none"])]]

\* The callbacks a listener operation invoked, run in order.
RECURSIVE RunCalls(_, _)
RunCalls(d, calls) ==
  IF calls = << >> THEN d
  ELSE LET c == Head(calls)
       IN RunCalls(IF c.kind = "resolve" THEN WaiterResolve(d, c.waiter)
                                         ELSE WaiterReject(d, c.waiter),
                   Tail(calls))

\* The place in `buffer` of the first chunk the matcher of `pattern` matches (0: none).
FirstMatch(pattern, buffer) ==
  LET hits == { i \in 1..Len(buffer) : MatchIndex(pattern, buffer[i]) # -1 }
  IN IF hits = {} THEN 0 ELSE SetMin(hits)

\* waitForOutputIncludes(output, pattern, timeout), lines 42-93: the promise
\* executor arms the timer and applies the waiter and its matcher to the listener.
WaitFor(o, pattern) ==
  /\ Len(waits) < MaxWaits
  /\ LET w == Len(waits) + 1
         buffer == listeners[o].buffer
         wait == [output |-> o, pattern |-> pattern, promise |-> "pending",
                  error |-> NoError, timer |-> "armed", seen |-> Concat(buffer)]
         r == ListenerApply(listeners[o], w, IncludesMatcher(pattern))
         d == RunCalls([listeners |-> [listeners EXCEPT ![o] = r.listener],
                        waits |-> Append(waits, wait)], r.calls)
         i == FirstMatch(pattern, buffer)
     IN /\ listeners' = d.listeners
        /\ waits' = d.waits
        /\ unconsumed' =
             [unconsumed EXCEPT ![o] =
                IF i = 0 THEN Undefined
                ELSE Defined(Slice(buffer[i], MatchIndex(pattern, buffer[i]))
                             \o Concat(SubSeq(buffer, i + 1, Len(buffer))))]
  /\ UNCHANGED <<nChunks, sandboxVars, unitVars>>

\* process.stdout.on("data") / process.stderr.on("data"), lines 28-40: the chunk
\* (already through stripAnsi) is ingested by the output's current listener.
Ingest(o, chunk) ==
  /\ nChunks < MaxChunks
  /\ LET L == listeners[o]
         matching == L.bound.on /\ L.status = "pending"
         r == ListenerIngest(L, chunk)
         d == RunCalls([listeners |-> [listeners EXCEPT ![o] = r.listener],
                        waits |-> IF matching
                                    THEN [waits EXCEPT ![L.bound.waiter].seen = @ \o chunk]
                                    ELSE waits],
                       r.calls)
         index == IF matching THEN MatchIndex(L.bound.matcher.strings, chunk) ELSE -1
     IN /\ listeners' = d.listeners
        /\ waits' = d.waits
        /\ unconsumed' =
             [unconsumed EXCEPT ![o] =
                IF index # -1 THEN Defined(Slice(chunk, index))
                ELSE IF @.def THEN Defined(@.val \o chunk)
                ELSE @]
  /\ nChunks' = nChunks + 1
  /\ UNCHANGED <<sandboxVars, unitVars>>

\* The setTimeout callback of lines 48-54 fires: the promise is rejected.
Timeout(w) ==
  /\ w \in 1..Len(waits)
  /\ waits[w].timer = "armed"
  /\ waits' = [waits EXCEPT ![w] =
                 Settle([@ EXCEPT !.timer = "fired"], "rejected",
                        TimeoutError(@.pattern, @.output))]
  /\ UNCHANGED <<listeners, unconsumed, nChunks, sandboxVars, unitVars>>

(***************************************************************************)
(* The sandbox directory. A path is the array of its segments; a location  *)
(* is a path from context, << >> being context itself.                     *)
(*   fs.exists:  the directory context exists                              *)
(*   fs.entries: the names of its top-level entries                        *)
(*   fs.modules: the names of the entries inside node_modules              *)
(***************************************************************************)
EmptyDirectory == [exists |-> TRUE, entries |-> {}, modules |-> {}]

\* path.resolve(context, path) for a relative path: "." segments fall away.
Resolve(path) == SelectSeq(path, LAMBDA segment : segment # ".")

\* path.dirname of a location below context.
Dirname(location) == SubSeq(location, 1, Len(location) - 1)

\* fs.remove (fs-extra): removes a file or a directory with all it holds; a
\* location where nothing exists is not an error.
FsRemove(f, location) ==
  IF location = << >> THEN [exists |-> FALSE, entries |-> {}, modules |-> {}]
  ELSE IF Len(location) = 1
    THEN [f EXCEPT !.entries = @ \ {location[1]},
                   !.modules = IF location[1] = "node_modules" THEN {} ELSE @]
  ELSE IF location[1] = "node_modules" THEN [f EXCEPT !.modules = @ \ {location[2]}]
  ELSE f

\* fs.mkdirp: creates the directory and every missing directory above it.
FsMkdirp(f, location) ==
  IF location = << >> THEN [f EXCEPT !.exists = TRUE]
  ELSE [f EXCEPT !.exists = TRUE, !.entries = @ \cup {location[1]}]

\* fs.writeFile of a file in a directory that exists.
FsWriteFile(f, location) ==
  IF Len(location) = 1 THEN [f EXCEPT !.entries = @ \cup {location[1]}]
  ELSE [f EXCEPT !.modules = @ \cup {location[2]}]

\* fs.readdir(context).filter((entry) => entry !== "node_modules")
EntriesToRemoveUnfiltered(f) == f.entries

EntriesToRemove(f) == f.entries \ {"node_modules"}

\* What a reset or a cleanup removes: a top-level entry, or "." for context.
Targets == {"a", "b", "node_modules", "."}

\* No reset or cleanup has been called yet.
NoSweep ==
  [op |-> "none", pc |-> "idle", kills |-> {}, n |-> 0, retries |-> 0, todo |-> {},
   fails |-> [x \in Targets |-> 0], result |-> "pending", before |-> EmptyDirectory]

InitDriver ==
  /\ listeners = [o \in Outputs |-> CreateBufferedListener(<< >>)]
  /\ waits = << >>
  /\ unconsumed = [o \in Outputs |-> Undefined]
  /\ nChunks = 0

InitSandbox ==
  /\ childProcesses = {}
  /\ procs = << >>
  /\ kills = << >>
  /\ execs = << >>
  /\ sweep = NoSweep
  /\ fs = EmptyDirectory

InitListener ==
  /\ bl = CreateBufferedListener(<< >>)
  /\ cbs = << >>
  /\ mcalls = 0
  /\ applies = << >>
  /\ nOps = 0
  /\ lastCall = [op |-> "none", arg |-> << >>]

(***************************************************************************)
(* The sandbox module, lines 76-78 and 226-317: one file of the sandbox,   *)
(* sandbox.write on it and sandbox.patch(path, search, replacement).       *)
(***************************************************************************)
MaxFileOps == 3

\* The texts a caller writes, searches for and replaces with.
Contents == { <<"X">>, <<"X", "X">>, <<"X", "Y">>, <<"Y">>, <<"X", "\r", "\n">>,
              <<"\r", "\r", "\n">> }
Searches == { <<"X">>, <<"X", "Y">>, <<"Z">> }
Replacements == { << >>, <<"Y">>, <<"X", "Y">>, <<"$", "&">>, <<"$", "$">> }

\* content.split(/\r\n?|\n/).join("\n")
RECURSIVE NormalizeEol(_)
NormalizeEol(content) ==
  IF content = << >> THEN << >>
  ELSE IF Head(content) = "\r"
    THEN IF Len(content) >= 2 /\ content[2] = "\n"
           THEN <<"\n">> \o NormalizeEol(SubSeq(content, 3, Len(content)))
           ELSE <<"\n">> \o NormalizeEol(Tail(content))
    ELSE <<Head(content)>> \o NormalizeEol(Tail(content))

\* The replacement text of String.prototype.replace(string, string): "$$" stands
\* for "$", "$&" for the matched text, "$`" and "$'" for the text before and
\* after the match; with a string pattern there are no groups, so "$1" is literal.
RECURSIVE GetSubstitution(_, _, _, _)
GetSubstitution(matched, before, after, replacement) ==
  IF replacement = << >> THEN << >>
  ELSE IF Head(replacement) = "$" /\ Len(replacement) >= 2
                                  /\ replacement[2] \in {"$", "&", "`", "'"}
    THEN (CASE replacement[2] = "$" -> <<"$">>
            [] replacement[2] = "&" -> matched
            [] replacement[2] = "`" -> before
            [] replacement[2] = "'" -> after)
         \o GetSubstitution(matched, before, after, SubSeq(replacement, 3, Len(replacement)))
    ELSE <<Head(replacement)>> \o GetSubstitution(matched, before, after, Tail(replacement))

\* content.replace(search, replacement), search a string: the first occurrence only.
Replace(content, search, replacement) ==
  LET index == IndexOf(content, search)
      before == SubSeq(content, 1, index)
      after == Slice(content, index + Len(search))
  IN IF index = -1 THEN content
     ELSE before \o GetSubstitution(search, before, after, replacement) \o after

NoFile == [exists |-> FALSE, content |-> << >>]

\* fs.writeFile(realPath, content)
FsWriteText(file, content) == [exists |-> TRUE, content |-> content]

PatchFindsAlways(content, search) == TRUE

\* lines 303-307: if (!content.includes(search)) throw new Error("Cannot find ...")
PatchFinds(content, search) == Includes(content, search)

NoPatch == [pc |-> "idle", search |-> << >>, replacement |-> << >>, read |-> << >>,
            before |-> NoFile, reads |-> 0, writes |-> 0, result |-> "none",
            written |-> << >>, clean |-> TRUE, over |-> << >>]

\* wrote: history, the text the last sandbox.write was handed, when it is that
\* write which made the file's content; got: what the last text read returned,
\* defined while the file has not been written since.
InitPatch ==
  pf = [file |-> NoFile, call |-> NoPatch, prev |-> NoPatch, n |-> 0,
        wrote |-> Undefined, got |-> Undefined]

WriteContentRaw(content) == content

\* typeof content === "string" ? normalizeEol(content) : content, for a text
WriteContent(content) == NormalizeEol(content)

\* sandbox.write(path, content) by the caller, lines 226-257: the directory is
\* there, so the call comes down to fs.writeFile(realPath, normalizeEol(content)).
\* A write may land while a patch call is between its read and its write.
FileWrite(content) ==
  /\ pf.n < MaxFileOps
  /\ pf' = [pf EXCEPT !.file = FsWriteText(pf.file, WriteContent(content)),
                      !.call.clean = FALSE,
                      !.wrote = Defined(content),
                      !.got = Undefined,
                      !.n = @ + 1]
  /\ UNCHANGED <<inst, listenerVars, rt, driverVars, sandboxVars>>

\* sandbox.read(path, "utf8"), lines 258-281: fs.readFile(...).then(normalizeEol)
FileRead ==
  /\ pf.file.exists
  /\ pf' = [pf EXCEPT !.got = Defined(NormalizeEol(pf.file.content))]
  /\ UNCHANGED <<inst, listenerVars, rt, driverVars, sandboxVars>>

\* The caller writes back the text it has just read.
FileWriteBack == pf.got.def /\ FileWrite(pf.got.val)

\* sandbox.patch(path, search, replacement), lines 288-301: the call starts the
\* read of the file; one patch call at a time.
PatchCall(search, replacement) ==
  /\ pf.n < MaxFileOps
  /\ pf.call.pc \in {"idle", "done"}
  /\ pf.file.exists
  /\ pf' = [pf EXCEPT !.prev = pf.call,
                      !.call = [NoPatch EXCEPT !.pc = "reading",
                                               !.search = search,
                                               !.replacement = replacement,
                                               !.before = pf.file],
                      !.n = @ + 1]
  /\ UNCHANGED <<inst, listenerVars, rt, driverVars, sandboxVars>>

\* lines 298-311: the read settles with the normalised content; a content without
\* search throws, outside any retry; otherwise the call awaits wait().
PatchRead ==
  /\ pf.call.pc = "reading"
  /\ LET content == NormalizeEol(pf.file.content)
     IN pf' = [pf EXCEPT !.call.read = content,
                         !.call.reads = @ + 1,
                         !.call.pc = IF PatchFinds(content, pf.call.search)
                                       THEN "waiting" ELSE "done",
                         !.call.result = IF PatchFinds(content, pf.call.search)
                                           THEN "none" ELSE "PatchTargetNotFound"]
  /\ UNCHANGED <<inst, listenerVars, rt, driverVars, sandboxVars>>

PatchWriteLost ==
  /\ pf.call.pc = "waiting"
  /\ pf' = [pf EXCEPT !.call.written = Replace(pf.call.read, pf.call.search, pf.call.replacement),
                      !.call.over = pf.file.content,
                      !.wrote = Undefined,
                      !.got = Undefined,
                      !.call.writes = @ + 1,
                      !.call.pc = "done",
                      !.call.result = "ok"]
  /\ UNCHANGED <<inst, listenerVars, rt, driverVars, sandboxVars>>

PatchWriteFresh ==
  /\ pf.call.pc = "waiting"
  /\ LET written == Replace(NormalizeEol(pf.file.content), pf.call.search,
                            pf.call.replacement)
     IN pf' = [pf EXCEPT !.file = FsWriteText(pf.file, written),
                         !.wrote = Undefined,
                         !.got = Undefined,
                         !.call.written = written,
                         !.call.over = pf.file.content,
                         !.call.writes = @ + 1,
                         !.call.pc = "done",
                         !.call.result = "ok"]
  /\ UNCHANGED <<inst, listenerVars, rt, driverVars, sandboxVars>>

\* lines 312-316: fs.writeFile(realPath, content.replace(search, replacement));
\* over: history, the content of the file this write replaced.
PatchWrite ==
  /\ pf.call.pc = "waiting"
  /\ LET written == Replace(pf.call.read, pf.call.search, pf.call.replacement)
     IN pf' = [pf EXCEPT !.file = FsWriteText(pf.file, written),
                         !.wrote = Undefined,
                         !.got = Undefined,
                         !.call.written = written,
                         !.call.over = pf.file.content,
                         !.call.writes = @ + 1,
                         !.call.pc = "done",
                         !.call.result = "ok"]
  /\ UNCHANGED <<inst, listenerVars, rt, driverVars, sandboxVars>>

(***************************************************************************)
(* sandbox.install in its three versions:                                  *)
(*   "fixed"      the sandbox module, lines 134-225: install(manager,      *)
(*                dependencies), with the sandbox's fixedDependencies and  *)
(*                lockDirectory;                                           *)
(*   "packages"   async.ts, lines 143-233: install(manager, overwrites:    *)
(*                Package[], options.lockDirectory);                       *)
(*   "overwrites" sandbox.ts, lines 105-150: install(manager, overwrites   *)
(*                per section), without a lock cache.                      *)
(* A manifest is the parsed package.json: a title, standing for every      *)
(* field that is not a dependency section, and the three sections. A       *)
(* section is undefined or an object, given as its set of <<name,          *)
(* version>> entries. The md5 digest is taken to be injective, so a cache  *)
(* key is the tuple that is hashed.                                        *)
(***************************************************************************)
MaxInstalls == 2

SectionNames == {"dependencies", "devDependencies", "optionalDependencies"}

NoSection == [def |-> FALSE, entries |-> {}]
Section(entries) == [def |-> TRUE, entries |-> entries]

\* package.ts lines 7-11: interface Package { name; version; immutable? }
Package(name, version, immutable) ==
  [name |-> name, version |-> version, immutable |-> immutable]

\* section || {}
OrEmpty(section) == IF section.def THEN section.entries ELSE {}

SetEntryAlone(entries, name, version) == { <<name, version>> }

\* object[name] = version
SetEntry(entries, name, version) ==
  { e \in entries : e[1] # name } \cup { <<name, version>> }

\* { ...a, ...b }
Spread(a, b) == { e \in a : \A f \in b : f[1] # e[1] } \cup b

\* for (const pkg of packages) object[pkg.name] = pkg.version
RECURSIVE SetPackages(_, _)
SetPackages(entries, packages) ==
  IF packages = << >> THEN entries
  ELSE SetPackages(SetEntry(entries, Head(packages).name, Head(packages).version),
                   Tail(packages))

Manifests ==
  { [title |-> "app", dependencies |-> NoSection, devDependencies |-> NoSection,
     optionalDependencies |-> NoSection],
    [title |-> "app", dependencies |-> Section({<<"a", "1">>}),
     devDependencies |-> Section({<<"b", "1">>}), optionalDependencies |-> NoSection] }

\* The lock files a package manager leaves, one with Windows line endings.
LockContents == { <<"l", "\n">>, <<"m", "\r", "\n">> }

\* The sandbox module: the dependencies argument and the sandbox's fixedDependencies.
FixedArgs ==
  { [fixed |-> {}, dependencies |-> {}],
    [fixed |-> {<<"a", "file1">>}, dependencies |-> {<<"b", "2">>}],
    [fixed |-> {<<"a", "file2">>}, dependencies |-> {<<"b", "2">>}] }

\* async.ts: overwrites: Package[]
PackageArgs ==
  { << >>,
    << Package("a", "file1", FALSE), Package("b", "2", TRUE) >>,
    << Package("a", "file2", FALSE), Package("b", "2", TRUE) >> }

NotGiven == [def |-> FALSE, packages |-> << >>]
Given(packages) == [def |-> TRUE, packages |-> packages]

\* sandbox.ts: overwrites: InstallOverwrites
OverwriteArgs ==
  { [dependencies |-> NotGiven, devDependencies |-> NotGiven,
     optionalDependencies |-> NotGiven],
    [dependencies |-> Given(<< Package("b", "2", TRUE) >>), devDependencies |-> NotGiven,
     optionalDependencies |-> NotGiven],
    [dependencies |-> NotGiven,
     devDependencies |-> Given(<< Package("b", "2", TRUE), Package("b", "3", TRUE) >>),
     optionalDependencies |-> Given(<< >>)] }

\* Whether a lock directory is configured: sandbox.ts has no such option.
LockDirectories(variant) == IF variant = "overwrites" THEN {FALSE} ELSE BOOLEAN

InstallArgs(variant) ==
  CASE variant = "fixed" -> FixedArgs
    [] variant = "packages" -> PackageArgs
    [] variant = "overwrites" -> OverwriteArgs

\* The sandbox module, lines 147-157: packageJSON is a new object with a new
\* dependencies object; originalPackageJSON is left as parsed.
MergeFixed(original, arg) ==
  [packageJSON |->
     [original EXCEPT !.dependencies =
        Section(Spread(Spread(OrEmpty(original.dependencies), arg.fixed), arg.dependencies))],
   original |-> original]

\* async.ts, lines 156-165: packageJSON.dependencies is originalPackageJSON's own
\* dependencies object when there is one (a new object otherwise), so the
\* assignments of the loop land in originalPackageJSON as well.
MergePackages(original, overwrites) ==
  LET dependencies == Section(SetPackages(OrEmpty(original.dependencies), overwrites))
  IN [packageJSON |-> [original EXCEPT !.dependencies = dependencies],
      original |-> IF original.dependencies.def
                     THEN [original EXCEPT !.dependencies = dependencies]
                     ELSE original]

\* sandbox.ts, lines 118-135: each target given in overwrites is created when the
\* manifest lacks it and takes the packages; the parsed object is changed in place.
MergeOverwrites(original, overwrites) ==
  LET packageJSON ==
        [field \in DOMAIN original |->
           IF field \in SectionNames /\ overwrites[field].def
             THEN Section(SetPackages(OrEmpty(original[field]), overwrites[field].packages))
             ELSE original[field]]
  IN [packageJSON |-> packageJSON, original |-> packageJSON]

Merge(variant, original, arg) ==
  CASE variant = "fixed" -> MergeFixed(original, arg)
    [] variant = "packages" -> MergePackages(original, arg)
    [] variant = "overwrites" -> MergeOverwrites(original, arg)

NoLockFile == [def |-> FALSE, key |-> << >>]

\* JSON.stringify([manager, dependencies, originalPackageJSON.dependencies,
\*                 originalPackageJSON.devDependencies]), the sandbox module
LockKeyFixed(manager, arg, original) ==
  <<manager, arg.dependencies, original.dependencies, original.devDependencies>>

\* JSON.stringify([manager, overwrites.filter((pkg) => pkg.immutable),
\*                 originalPackageJSON.dependencies, originalPackageJSON.devDependencies]), async.ts
LockKeyPackages(manager, overwrites, original) ==
  <<manager, SelectSeq(overwrites, LAMBDA pkg : pkg.immutable),
    original.dependencies, original.devDependencies>>

\* let lockFile; if (lockDirectory) lockFile = resolve(lockDirectory, md5(...) + ".lock")
LockFile(variant, lockDirectory, manager, arg, original) ==
  IF ~lockDirectory \/ variant = "overwrites" THEN NoLockFile
  ELSE [def |-> TRUE,
        key |-> IF variant = "fixed" THEN LockKeyFixed(manager, arg, original)
                                     ELSE LockKeyPackages(manager, arg, original)]

\* case "yarn": "yarn.lock"; case "npm": "package-lock.json"
ManagerFile(manager) == IF manager = "yarn" THEN "yarn.lock" ELSE "package-lock.json"

\* The lock directory: a set of files, each a key and a content.
CacheHas(cache, key) == \E entry \in cache : entry.key = key
CacheGet(cache, key) == (CHOOSE entry \in cache : entry.key = key).content
CachePut(cache, key, content) ==
  { entry \in cache : entry.key # key } \cup { [key |-> key, content |-> content] }

NoInstall == [pc |-> "idle", manager |-> "none", arg |-> << >>, lockDirectory |-> FALSE,
              before |-> NoFile, original |-> << >>, lockFile |-> NoLockFile,
              cacheBefore |-> {}, atExec |-> NoFile, left |-> NoFile,
              trace |-> << >>, result |-> "none"]

\* What is kept of a call with a lock file once the next one is made: the
\* lock file, and what the key is to depend on.
Summary(variant, call) ==
  IF ~call.lockFile.def THEN NoInstall
  ELSE [NoInstall EXCEPT
          !.pc = "done",
          !.manager = call.manager,
          !.arg = IF variant = "fixed" THEN [call.arg EXCEPT !.fixed = {}]
                  ELSE SelectSeq(call.arg, LAMBDA pkg : pkg.immutable),
          !.before = [call.before EXCEPT !.content.title = "",
                                         !.content.optionalDependencies = NoSection],
          !.lockFile = call.lockFile]

NoLocks == [file \in {"yarn.lock", "package-lock.json"} |-> NoFile]

InitInstall ==
  inst = [variant |-> "none", manifest |-> NoFile, locks |-> NoLocks, cache |-> {},
          call |-> NoInstall, prev |-> NoInstall, n |-> 0]

\* A sandbox with a fixture loaded (or none): a manifest, or no package.json, and
\* no lock file. The lock directory outlives it.
Fresh(manifest) ==
  /\ inst.call.pc \in {"idle", "done"}
  /\ inst' = [inst EXCEPT !.manifest = manifest, !.locks = NoLocks]
  /\ UNCHANGED <<pf, listenerVars, rt, driverVars, sandboxVars>>

InstallThrowsAfterCacheRead(call) ==
  [call EXCEPT !.pc = "done", !.result = "MissingManifest", !.trace = <<"read cache">>]

\* if (!(await sandbox.exists("package.json", options))) throw new Error(...)
InstallThrows(call) == [call EXCEPT !.pc = "done", !.result = "MissingManifest"]

\* The values install is called with as its manager: the two of its type, and
\* one a caller without the type checker can pass.
Managers == {"yarn", "npm", "pnpm"}

HasCaseAlways(manager) == TRUE

\* switch (manager): case "yarn", case "npm", and no default.
HasCase(manager) == manager \in {"yarn", "npm"}

\* install, up to the switch: the exists test and its throw, the parse, the merge
\* and the write of package.json, then the cache key; with no case for the
\* manager the switch does nothing and install returns.
InstallCall(variant, manager, arg, lockDirectory) ==
  /\ inst.call.pc \in {"idle", "done"}
  /\ inst.n < MaxInstalls
  /\ inst.variant \in {"none", variant}
  /\ LET call == [NoInstall EXCEPT !.manager = manager, !.arg = arg,
                                   !.lockDirectory = lockDirectory,
                                   !.before = inst.manifest,
                                   !.cacheBefore = inst.cache]
         merged == Merge(variant, inst.manifest.content, arg)
     IN IF ~inst.manifest.exists
          THEN inst' = [inst EXCEPT !.variant = variant, !.n = @ + 1, !.prev = Summary(inst.variant, inst.call),
                                    !.call = InstallThrows(call)]
          ELSE inst' = [inst EXCEPT
                          !.variant = variant, !.n = @ + 1, !.prev = Summary(inst.variant, inst.call),
                          !.manifest = FsWriteText(@, merged.packageJSON),
                          !.call = [call EXCEPT
                                      !.pc = IF HasCase(manager) THEN "loading" ELSE "done",
                                      !.result = IF HasCase(manager) THEN "none" ELSE "ok",
                                      !.original = merged.original,
                                      !.lockFile = LockFile(variant, lockDirectory, manager,
                                                            arg, merged.original),
                                      !.trace = <<"write package.json">>]]
  /\ UNCHANGED <<pf, listenerVars, rt, driverVars, sandboxVars>>

\* What the manager's command does to its lock file: leaves it, or writes it.
Produced ==
  { [kind |-> "keep", content |-> << >>] }
    \cup { [kind |-> "write", content |-> content] : content \in LockContents }

LoadsLockFileNever(lockFile, cache) == FALSE

\* if (lockFile && (await fs.pathExists(lockFile)))
LoadsLockFile(lockFile, cache) == lockFile.def /\ CacheHas(cache, lockFile.key)

\* tryToLoadLockFile(managerFile), then the start of the manager's command:
\* sandbox.write(managerFile, await fs.readFile(lockFile, "utf-8")) when the
\* lock directory holds lockFile, then sandbox.exec.
InstallLoad ==
  /\ inst.call.pc = "loading"
  /\ LET call == inst.call
         managerFile == ManagerFile(call.manager)
         cached == LoadsLockFile(call.lockFile, inst.cache)
         locks == IF cached
                    THEN [inst.locks EXCEPT ![managerFile] =
                            FsWriteText(@, NormalizeEol(CacheGet(inst.cache, call.lockFile.key)))]
                    ELSE inst.locks
     IN inst' = [inst EXCEPT
                   !.locks = locks,
                   !.call.pc = "executing",
                   !.call.atExec = locks[managerFile],
                   !.call.trace = @ \o (IF cached THEN <<"read cache", "write lock file">>
                                                  ELSE << >>) \o <<"exec">>]
  /\ UNCHANGED <<pf, listenerVars, rt, driverVars, sandboxVars>>

\* sandbox.exec of the manager's command settles: resolved, or rejected once its
\* retries are used up, which install rethrows.
InstallExecDone(ok, produced) ==
  /\ inst.call.pc = "executing"
  /\ LET managerFile == ManagerFile(inst.call.manager)
         locks == IF produced.kind = "write"
                    THEN [inst.locks EXCEPT ![managerFile] = FsWriteText(@, produced.content)]
                    ELSE inst.locks
     IN inst' = [inst EXCEPT
                   !.locks = locks,
                   !.call.left = locks[managerFile],
                   !.call.pc = IF ok THEN "storing" ELSE "done",
                   !.call.result = IF ok THEN "none" ELSE "rejected"]
  /\ UNCHANGED <<pf, listenerVars, rt, driverVars, sandboxVars>>

StoredContentNormalised(variant, content) == NormalizeEol(content)

\* await sandbox.read(managerFile): the sandbox module reads the bytes (no
\* encoding given), async.ts reads text through normalizeEol.
StoredContent(variant, content) ==
  IF variant = "fixed" THEN content ELSE NormalizeEol(content)

\* tryToStoreLockFile(managerFile): with a lockFile and the manager's file in the
\* sandbox, the lock directory is made and lockFile written.
InstallStore ==
  /\ inst.call.pc = "storing"
  /\ LET call == inst.call
         file == inst.locks[ManagerFile(call.manager)]
         stores == call.lockFile.def /\ file.exists
     IN inst' = [inst EXCEPT
                   !.cache = IF stores
                               THEN CachePut(@, call.lockFile.key,
                                             StoredContent(inst.variant, file.content))
                               ELSE @,
                   !.call.pc = "done",
                   !.call.result = "ok",
                   !.call.trace = @ \o (IF stores THEN <<"mkdirp lock directory", "write cache">>
                                                  ELSE << >>)]
  /\ UNCHANGED <<pf, listenerVars, rt, driverVars, sandboxVars>>

Init == InitDriver /\ InitSandbox /\ InitListener /\ InitRetry /\ InitPatch /\ InitInstall

\* A caller that writes one file and patches it.
NextPatch ==
  \/ \E content \in Contents : FileWrite(content)
  \/ \E search \in Searches, replacement \in Replacements : PatchCall(search, replacement)
  \/ PatchRead
  \/ PatchWrite
  \/ FileRead
  \/ FileWriteBack

SpecPatch == Init /\ [][NextPatch]_vars

\* Sandboxes that install into their fixtures, sharing one lock directory.
NextInstall ==
  \/ Fresh(NoFile)
  \/ \E manifest \in Manifests : Fresh(FsWriteText(NoFile, manifest))
  \/ \E variant \in {"fixed", "packages", "overwrites"}, manager \in Managers :
       \E arg \in InstallArgs(variant), lockDirectory \in LockDirectories(variant) :
         InstallCall(variant, manager, arg, lockDirectory)
  \/ InstallLoad
  \/ \E ok \in BOOLEAN, produced \in Produced : InstallExecDone(ok, produced)
  \/ InstallStore

SpecInstall == Init /\ [][NextInstall]_vars

SpecListener == Init /\ [][NextListener]_vars

SpecRetry == Init /\ [][NextRetry]_vars

\* A process that writes to its stdout, and a caller that waits on it.
NextDriver ==
  \/ \E pattern \in Patterns : WaitFor("stdout", pattern)
  \/ \E chunk \in Chunks : Ingest("stdout", chunk)
  \/ \E w \in 1..MaxWaits : Timeout(w)

SpecDriver == Init /\ [][NextDriver]_vars

\* A process that writes to both its outputs, and callers that wait on either.
NextStreams ==
  \/ \E o \in Outputs, pattern \in Patterns : WaitFor(o, pattern)
  \/ \E o \in Outputs, chunk \in Chunks : Ingest(o, chunk)
  \/ \E w \in 1..MaxWaits : Timeout(w)

SpecStreams == Init /\ [][NextStreams]_vars

\* The scheduling the event loop guarantees: an armed timer fires.
SpecDriverFair == SpecDriver /\ \A w \in 1..MaxWaits : WF_vars(Timeout(w))

(***************************************************************************)
(* Properties of the process output driver.                                *)
(***************************************************************************)
\* Some candidate of `pattern` occurs in `text`.
Occurs(pattern, text) == \E k \in 1..Len(pattern) : Includes(text, pattern[k])

\* The end of the earliest-ending first occurrence of a candidate in `chunk`.
EarliestMatchEnd(pattern, chunk) ==
  SetMin({ IndexOf(chunk, pattern[k]) + Len(pattern[k]) :
             k \in { j \in 1..Len(pattern) : Includes(chunk, pattern[j]) } })

\* The step is a waitForOutputIncludes call; its wait is the last of waits'.
IsWaitForStep == Len(waits') = Len(waits) + 1

\* The wait w is the one whose matcher the output's current listener runs.
Attached(w) ==
  LET L == listeners[waits[w].output]
  IN L.bound.on /\ L.bound.waiter = w

\* The caller waits on an output one wait at a time: the waits before w have all
\* been resolved by a match.
InSequence(ws, w) == \A x \in 1..Len(ws) : x # w => ws[x].promise = "resolved"

\* C1: chunks ingested before any wait is attached are buffered; a wait attached
\* afterwards for a pattern that occurs in the concatenation of the buffered
\* chunks (also across a chunk boundary) resolves in that very call.
C1_ReplayFindsPatternAcrossChunks ==
  [][IsWaitForStep =>
       LET w == Len(waits')
           o == waits'[w].output
       IN (/\ InSequence(waits', w)
           /\ ~listeners[o].bound.on
           /\ Occurs(waits'[w].pattern, Concat(listeners[o].buffer)))
          => waits'[w].promise = "resolved"]_vars

\* C6: a wait that is still pending (attached, timer armed) has not been given a
\* text that holds a candidate pattern in full, however the text was chunked.
C6_PendingWaitHasSeenNoPattern ==
  \A w \in 1..Len(waits) :
    (waits[w].promise = "pending" /\ Attached(w) /\ InSequence(waits, w))
      => ~Occurs(waits[w].pattern, waits[w].seen)

\* C7: when a wait matches, what stays in the buffer is the text after the end of
\* the earliest match among the candidates, followed by the chunks buffered behind
\* the matching chunk.
C7_ConsumedEndsAtEarliestMatch ==
  [][\A w \in 1..Len(waits') :
       LET o == waits'[w].output
           pattern == waits'[w].pattern
           buffer == listeners[o].buffer
           i == FirstMatch(pattern, buffer)
           chunk == Slice(waits'[w].seen, Len(waits[w].seen))
       IN /\ (IsWaitForStep /\ w = Len(waits') /\ waits'[w].promise = "resolved"
               /\ InSequence(waits', w))
               => Concat(listeners'[o].buffer)
                    = Slice(buffer[i], EarliestMatchEnd(pattern, buffer[i]))
                      \o Concat(SubSeq(buffer, i + 1, Len(buffer)))
          /\ (w <= Len(waits) /\ waits[w].promise = "pending"
              /\ waits'[w].promise = "resolved" /\ InSequence(waits', w))
               => Concat(listeners'[o].buffer)
                    = Concat(buffer) \o Slice(chunk, EarliestMatchEnd(pattern, chunk))]_vars

\* The promise of a wait and its timer agree: pending while the timer is armed,
\* resolved with the timer cleared, rejected only by the timer firing and then with
\* the Timeout error that names the wait's own pattern and output.
WaitSettledByTimerOrMatch ==
  \A w \in 1..Len(waits) :
    /\ waits[w].promise = "pending" <=> waits[w].timer = "armed"
    /\ waits[w].promise = "resolved" <=> waits[w].timer = "cleared"
    /\ waits[w].promise = "rejected" <=> waits[w].timer = "fired"
    /\ waits[w].promise = "rejected"
         => waits[w].error = TimeoutError(waits[w].pattern, waits[w].output)
    /\ waits[w].promise # "rejected" => waits[w].error = NoError

\* A settled wait never changes: not its outcome, its error or its timer.
WaitSettlesOnce ==
  \A w \in 1..Len(waits) :
    waits[w].promise # "pending"
      => /\ waits'[w].promise = waits[w].promise
         /\ waits'[w].error = waits[w].error
         /\ waits'[w].timer = waits[w].timer

\* C8: a wait is rejected with Timeout exactly when its timer fires (not earlier,
\* and, the timer being fair, not never), a wait that matched has its timer
\* cleared, and a settled wait stays as it settled.
C8_TimeoutWhenTimerFiresSettledOnce ==
  /\ []WaitSettledByTimerOrMatch
  /\ [][WaitSettlesOnce]_vars
  /\ \A w \in 1..MaxWaits :
       [](w <= Len(waits) => <>(w <= Len(waits) /\ waits[w].promise # "pending"))

C8_Witness ==
  \E w, x \in 1..Len(waits) :
    /\ waits[w].promise = "rejected" /\ waits[w].timer = "fired"
    /\ ~Occurs(waits[w].pattern, waits[w].seen)
    /\ waits[x].promise = "resolved" /\ waits[x].timer = "cleared"

\* C9: after a match the output's listener is a fresh one without matcher whose
\* buffer is exactly the unconsumed text: the rest of the matching chunk, then
\* every chunk that arrived later, in order.
C9_NextWaitSearchesUnconsumedText ==
  \A o \in Outputs :
    unconsumed[o].def
      => /\ ~listeners[o].bound.on
         /\ listeners[o].status = "pending"
         /\ Concat(listeners[o].buffer) = unconsumed[o].val

C9_Witness ==
  \E o \in Outputs :
    /\ unconsumed[o].def
    /\ Len(listeners[o].buffer) = 2
    /\ \E w \in 1..Len(waits) : waits[w].output = o /\ waits[w].promise = "resolved"

\* C10: no matcher of a wait that has ended stays attached: once a wait timed out
\* the output's listener is a fresh one that buffers what arrives.
C10_TimedOutWaitIsDetached ==
  \A o \in Outputs :
    listeners[o].bound.on => waits[listeners[o].bound.waiter].promise = "pending"

(***************************************************************************)
(* Properties of retry.                                                    *)
(***************************************************************************)
\* C15: effect is invoked one call at a time and at most `retries` times (3 when
\* the option is left out); retry returns at the first attempt that succeeds,
\* with that attempt's value and no further invocation; when it throws, every
\* one of exactly `retries` invocations has failed.
C15_SequentialAttemptsWithinBudget ==
  /\ rt.inFlight \in {0, 1}
  /\ rt.inFlight = 1 <=> rt.pc = "effect"
  /\ rt.pc # "idle"
       => /\ rt.retries = (IF rt.option = 0 THEN 3 ELSE rt.option)
          /\ rt.invocations <= rt.retries
          /\ rt.invocations
               = Len(rt.errors) + rt.inFlight + (IF rt.result = "returned" THEN 1 ELSE 0)
  /\ rt.result = "returned" => rt.pc = "done" /\ rt.value \in EffectValues
  /\ rt.result = "thrown"
       => rt.pc = "done" /\ rt.invocations = rt.retries /\ Len(rt.errors) = rt.retries

C15_Witness ==
  /\ rt.option = 0 /\ rt.result = "returned"
  /\ rt.invocations = 3 /\ Len(rt.errors) = 2

\* C16: when retry throws, all `retries` attempts have failed and what it throws is
\* the error of the last attempt.
C16_ThrowsLastError ==
  rt.result = "thrown"
    => /\ Len(rt.errors) = rt.retries
       /\ rt.inFlight = 0
       /\ rt.error = rt.errors[Len(rt.errors)]

C16_Witness ==
  /\ rt.result = "thrown" /\ Len(rt.errors) = 3
  /\ rt.errors = <<"e1", "e2", "e3">> /\ rt.error = "e3"

\* C17: with retries = 1 a failing effect is invoked once; retry logs that one
\* failure ("Retry 1 of 1") and throws its error.
C17_OneRetryMeansOneAttempt ==
  (rt.option = 1 /\ rt.pc # "idle")
    => /\ rt.invocations = 1
       /\ rt.result = "thrown"
            => /\ Len(rt.errors) = 1
               /\ rt.error = rt.errors[1]
               /\ rt.log = << [line |-> "error", error |-> rt.errors[1], retry |-> 0,
                                retries |-> 0],
                              [line |-> "Retry", error |-> "none", retry |-> 1,
                               retries |-> 1] >>

C17_Witness ==
  rt.option = 1 /\ rt.result = "thrown" /\ rt.error = "e2"

(***************************************************************************)
(* Properties of the buffered listener used on its own.                    *)
(***************************************************************************)
\* The status and the stored value and error agree.
StatusAgreesWithStored ==
  /\ bl.status = "pending" => bl.resolved = "undefined" /\ bl.rejected = "undefined"
  /\ bl.status = "resolved" => bl.resolved # "undefined" /\ bl.rejected = "undefined"
  /\ bl.status = "rejected" => bl.rejected # "undefined" /\ bl.resolved = "undefined"

\* A listener that is resolved or rejected keeps its status, value and error.
TerminalStays ==
  bl.status # "pending"
    => bl'.status = bl.status /\ bl'.resolved = bl.resolved /\ bl'.rejected = bl.rejected

\* C11: the status starts at pending and changes at most once, whatever calls are
\* made and whatever a matcher does; the stored value or error is the one of the
\* first transition (only one of the two is ever set, and it never changes).
C11_StatusChangesAtMostOnce ==
  /\ bl.status = "pending"
  /\ []StatusAgreesWithStored
  /\ [][TerminalStays]_vars

C11_Witness ==
  /\ bl.status = "rejected" /\ bl.rejected = "e1"
  /\ Len(applies) = 2 /\ applies[2].status = "rejected" /\ applies[2].given
  /\ nOps = MaxOps

\* The step is a call `op` on bl.
IsCall(op) == nOps' = nOps + 1 /\ lastCall'.op = op

\* C12 as stated: the buffer of a listener that is resolved or rejected does not
\* grow; no ingest call adds a chunk to it.
C12_BufferGrowsOnlyWhilePending ==
  [][bl.status # "pending" => Len(bl'.buffer) <= Len(bl.buffer)]_vars

\* C12 as amended: the buffer grows only by ingest calls and by at most one chunk
\* per call; on a listener that is resolved or rejected every ingest call appends
\* its chunk unchanged, calling no matcher and no waiter, and no other call
\* changes the buffer.
C12_TerminalIngestBuffersTheChunk ==
  [][/\ Len(bl'.buffer) > Len(bl.buffer)
          => IsCall("ingest") /\ Len(bl'.buffer) = Len(bl.buffer) + 1
     /\ bl.status # "pending"
          => IF IsCall("ingest")
               THEN /\ bl'.buffer = Append(bl.buffer, lastCall'.arg)
                    /\ mcalls' = mcalls /\ cbs' = cbs
               ELSE bl'.buffer = bl.buffer]_vars

C12_Witness ==
  /\ bl.status = "resolved" /\ bl.bound.on
  /\ lastCall.op = "ingest"
  /\ Len(bl.buffer) = 2 /\ bl.buffer[2] = lastCall.arg
  /\ Len(cbs) = 1

\* C13: an apply call on a listener that is already resolved or rejected invokes
\* the corresponding callback of its waiter exactly once, with the stored value or
\* error, and does nothing else: no matcher call, the buffer and the status stay,
\* and a later ingest still just appends its chunk; with or without a matcher.
C13_ApplyOnTerminalCallsWaiterOnce ==
  [][(IsCall("apply") /\ bl.status # "pending")
       => /\ cbs' = Append(cbs, [waiter |-> Len(applies'),
                                 kind |-> IF bl.status = "resolved" THEN "resolve" ELSE "reject",
                                 value |-> IF bl.status = "resolved" THEN bl.resolved
                                                                    ELSE bl.rejected])
          /\ mcalls' = mcalls
          /\ bl'.buffer = bl.buffer
          /\ bl'.status = bl.status
          /\ \A chunk \in Chunks :
               ListenerIngest(bl', chunk)
                 = [listener |-> [bl' EXCEPT !.buffer = Append(@, chunk)], calls |-> << >>]]_vars

\* C14: resolve and reject on a listener that is no longer pending change nothing
\* and call nobody; the step that takes the listener out of pending invokes, in
\* that very step, exactly one callback, the one of the attached waiter (the last
\* one handed to apply) that corresponds to the new status, with the value or
\* error stored; and no resolve, reject or ingest call that follows invokes a
\* callback again.
C14_AttachedWaiterCalledOnceAtTransition ==
  [][/\ ((IsCall("resolve") \/ IsCall("reject")) /\ bl.status # "pending")
          => bl' = bl /\ cbs' = cbs
     /\ (bl.status = "pending" /\ bl'.status # "pending" /\ Len(applies') > 0)
          => cbs' = Append(cbs, [waiter |-> Len(applies'),
                                 kind |-> IF bl'.status = "resolved" THEN "resolve" ELSE "reject",
                                 value |-> IF bl'.status = "resolved" THEN bl'.resolved
                                                                     ELSE bl'.rejected])
     /\ (bl.status # "pending" /\ ~IsCall("apply")) => cbs' = cbs]_vars

(***************************************************************************)
(* The sandbox's child processes (src/unnamed/part_001, createSandbox).    *)
(*   procs[p]: a ChildProcess handle                                       *)
(*     kind:      "spawn" (sandbox.spawn) or "exec" (a run of sandbox.exec)*)
(*     state:     "running"; "exited" once its exit event (spawn) or its   *)
(*                completion callback (exec) has run; "failed" for a child *)
(*                that could not be started                                *)
(*     pid:       childProcess.pid is set (a child that failed has none)   *)
(*     killed:    childProcess.killed, set only by the handle's own kill() *)
(*     signalled: SIGKILL was delivered to the process tree                *)
(*     removals:  history, the number of deletes that removed it           *)
(*   kills[p]: the sandbox.kill call on child p; a child is killed at most *)
(*     once, by the caller or by reset / cleanup                           *)
(*     pc: "idle" (none yet), "treeKill" while the treeKill callback is    *)
(*         awaited, "done"                                                 *)
(*     requests: the treeKill requests the call has issued                 *)
(*     onExited: history, a request was issued after the child had exited  *)
(*     raced:    history, the child exited while treeKill was awaited      *)
(*   execs[e]: a sandbox.exec call, a retry loop over runs of the command  *)
(*     pc: "running", "waiting" (the delay after a failed run), "done"     *)
(*   sweep: the last sandbox.reset / sandbox.cleanup call                  *)
(*     pc: "killing" (the kill calls are awaited), "readdir", "removing"   *)
(*         (fs.remove of the entries of `todo` awaited), "done"            *)
(*     before: history, the directory as it was at the call                *)
(***************************************************************************)
\* Set.prototype.delete: removes the element if present; tells whether it was.
SetToggle(S, x) ==
  [set |-> IF x \in S THEN S \ {x} ELSE S \cup {x}, deleted |-> x \in S]

SetDelete(S, x) == [set |-> S \ {x}, deleted |-> x \in S]

\* childProcesses.delete(p) on the pair t = [tracked, procs]; procs keeps the
\* history of the deletes that removed something.
Untrack(t, p) ==
  LET r == SetDelete(t.tracked, p)
  IN [tracked |-> r.set,
      procs |-> [t.procs EXCEPT ![p].removals = IF r.deleted THEN @ + 1 ELSE @]]

\* childProcesses.add(p)
Track(t, p) == [t EXCEPT !.tracked = @ \cup {p}]

NewProc(kind, started, e) ==
  [kind |-> kind, state |-> IF started THEN "running" ELSE "failed", pid |-> started,
   killed |-> FALSE, signalled |-> FALSE, removals |-> 0, exec |-> e]


NoKill ==
  [pc |-> "idle", retry |-> 0, retries |-> 0, requests |-> 0, onExited |-> FALSE,
   outcome |-> "none", result |-> "pending", raced |-> FALSE]

\* sandbox.spawn(command, options), lines 365-393: the child is created, its exit
\* handler registered, and it is added to the set. A command that cannot be
\* started still yields a handle, with no pid, that never emits "exit".
Spawn(started) ==
  /\ Len(procs) < MaxProcs
  /\ LET p == Len(procs) + 1
         t == Track([tracked |-> childProcesses,
                     procs |-> Append(procs, NewProc("spawn", started, 0))], p)
     IN /\ childProcesses' = t.tracked
        /\ procs' = t.procs
  /\ kills' = Append(kills, NoKill)
  /\ UNCHANGED <<execs, sweep, fs, driverVars, unitVars>>

\* The exit handler of lines 386-388.
OnExitKeepsEntry(t, p) == t

OnExit(t, p) == Untrack(t, p)

\* A kill call that awaits treeKill for p sees p's exit event delivered meanwhile.
MarkRaced(p) ==
  IF kills[p].pc = "treeKill" THEN [kills EXCEPT ![p].raced = TRUE] ELSE kills

\* A spawned child exits (by itself or from a signal): its "exit" event is emitted.
ProcExit(p) ==
  /\ p \in 1..Len(procs)
  /\ procs[p].kind = "spawn"
  /\ procs[p].state = "running"
  /\ LET t == OnExit([tracked |-> childProcesses,
                      procs |-> [procs EXCEPT ![p].state = "exited"]], p)
     IN /\ childProcesses' = t.tracked
        /\ procs' = t.procs
  /\ kills' = MarkRaced(p)
  /\ UNCHANGED <<execs, sweep, fs, driverVars, unitVars>>

\* The caller uses the handle spawn returned: childProcess.kill() sends the signal
\* and sets childProcess.killed, the flag sandbox.kill reads at line 395.
HandleKill(p) ==
  /\ p \in 1..Len(procs)
  /\ procs[p].kind = "spawn"
  /\ procs[p].state = "running"
  /\ ~procs[p].killed
  /\ procs' = [procs EXCEPT ![p].killed = TRUE, ![p].signalled = TRUE]
  /\ UNCHANGED <<childProcesses, kills, execs, sweep, fs, driverVars, unitVars>>

\* One run of the command of an exec call (lines 327-361): exec(...) creates the
\* child and childProcesses.add(childProcess) tracks it.
LaunchRun(t, e) ==
  LET p == Len(t.procs) + 1
  IN Track([t EXCEPT !.procs = Append(@, NewProc("exec", TRUE, e))], p)

\* sandbox.exec(command, options), lines 324-364: retry(...) starts the first run.
ExecStart(fail, option) ==
  /\ Len(procs) < MaxProcs
  /\ LET e == Len(execs) + 1
         t == LaunchRun([tracked |-> childProcesses, procs |-> procs], e)
     IN /\ childProcesses' = t.tracked
        /\ procs' = t.procs
        /\ execs' = Append(execs, [fail |-> fail, retries |-> RetriesOf(option),
                                   retry |-> 1, pc |-> "running", child |-> Len(procs) + 1,
                                   result |-> "pending", error |-> FALSE,
                                   stdout |-> << >>, stderr |-> << >>, results |-> << >>])
  /\ kills' = Append(kills, NoKill)
  /\ UNCHANGED <<sweep, fs, driverVars, unitVars>>

OnExecCompleteKeepsEntry(t, p) == t

\* The completion callback of exec (lines 342-350): resolve or reject, then delete.
OnExecComplete(t, p) == Untrack(t, p)

\* An ANSI escape sequence is one element of a text.
AnsiCodes == {"ESC[31m", "ESC[0m"}

\* stripAnsi: the text without its escape sequences.
StripAnsi(text) == SelectSeq(text, LAMBDA c : c \notin AnsiCodes)

\* The streams of a run of the command, as <<stdout, stderr>>.
ExecOutputs == { << <<"o">>, <<"e">> >>, << <<"ESC[31m", "o", "ESC[0m">>, << >> >> }

ExecSettlesIgnoringFail(error, fail) == IF error THEN "reject" ELSE "resolve"

\* (error && options.fail) || !error
ExecSettles(error, fail) == IF (error /\ fail) \/ ~error THEN "resolve" ELSE "reject"

\* A run of an exec call completes: with an error when the command exited
\* non-zero or was killed by a signal. results = stripAnsi(stdout + stderr) is what
\* the run's promise is resolved or rejected with.
ExecComplete(p, error, stdout, stderr) ==
  /\ p \in 1..Len(procs)
  /\ procs[p].kind = "exec"
  /\ procs[p].state = "running"
  /\ procs[p].signalled => error
  /\ LET e == procs[p].exec
         t == OnExecComplete([tracked |-> childProcesses,
                              procs |-> [procs EXCEPT ![p].state = "exited"]], p)
     IN /\ childProcesses' = t.tracked
        /\ procs' = t.procs
        /\ execs' = [execs EXCEPT ![e] =
                       LET run == [@ EXCEPT !.error = error, !.stdout = stdout,
                                            !.stderr = stderr,
                                            !.results = StripAnsi(stdout \o stderr)]
                       IN IF ExecSettles(error, @.fail) = "resolve"
                            THEN [run EXCEPT !.pc = "done", !.result = "resolved"]
                            ELSE [run EXCEPT !.pc = "waiting"]]
  /\ kills' = MarkRaced(p)
  /\ UNCHANGED <<sweep, fs, driverVars, unitVars>>

\* retry (async.ts lines 26-37) after a failed run and its delay: the next run,
\* or, with the runs used up, throw lastError.
ExecRetry(e) ==
  /\ e \in 1..Len(execs)
  /\ execs[e].pc = "waiting"
  /\ IF execs[e].retry + 1 <= execs[e].retries
       THEN /\ Len(procs) < MaxProcs
            /\ LET t == LaunchRun([tracked |-> childProcesses, procs |-> procs], e)
               IN /\ childProcesses' = t.tracked
                  /\ procs' = t.procs
            /\ execs' = [execs EXCEPT ![e].retry = @ + 1, ![e].pc = "running",
                                      ![e].child = Len(procs) + 1]
            /\ kills' = Append(kills, NoKill)
       ELSE /\ execs' = [execs EXCEPT ![e].pc = "done", ![e].result = "rejected"]
            /\ UNCHANGED <<childProcesses, procs, kills>>
  /\ UNCHANGED <<sweep, fs, driverVars, unitVars>>

\* The treeKill callback of lines 400-407: an error is written to the console and
\* the promise is resolved all the same.
TreeKillSettlesRejecting(error) == IF error THEN "reject" ELSE "resolve"

TreeKillSettles(error) == "resolve"

\* sandbox.kill(childProcess, options) up to its first await (lines 394-411) on
\* t = [tracked, procs, kills]: with the flag unset and a pid, treeKill is called
\* and awaited; otherwise the delete of line 414 runs at once.
KillCall(t, p, option) ==
  IF ~t.procs[p].killed /\ t.procs[p].pid
    THEN [t EXCEPT !.kills[p] =
            [pc |-> "treeKill", retry |-> 1, retries |-> RetriesOf(option),
             requests |-> 1, onExited |-> t.procs[p].state = "exited",
             outcome |-> "none", result |-> "pending", raced |-> FALSE]]
    ELSE LET u == Untrack([tracked |-> t.tracked, procs |-> t.procs], p)
         IN [tracked |-> u.tracked, procs |-> u.procs,
             kills |-> [t.kills EXCEPT ![p] =
                          [pc |-> "done", retry |-> 0, retries |-> RetriesOf(option),
                           requests |-> 0, onExited |-> FALSE,
                           outcome |-> "skipped", result |-> "ok", raced |-> FALSE]]]

\* The caller kills a child whose handle spawn returned.
Kill(p, option) ==
  /\ p \in 1..Len(procs)
  /\ procs[p].kind = "spawn"
  /\ kills[p].pc = "idle"
  /\ LET t == KillCall([tracked |-> childProcesses, procs |-> procs, kills |-> kills],
                       p, option)
     IN /\ childProcesses' = t.tracked
        /\ procs' = t.procs
        /\ kills' = t.kills
  /\ UNCHANGED <<execs, sweep, fs, driverVars, unitVars>>

\* treeKill calls back. Without error the SIGKILL reached the tree of a process
\* that still runs. The retry loop of async.ts lines 26-37 runs the effect again
\* only when its promise rejects.
TreeKillDone(p, error) ==
  /\ p \in 1..Len(kills)
  /\ kills[p].pc = "treeKill"
  /\ LET hit == [procs EXCEPT ![p].signalled = @ \/ (~error /\ procs[p].state = "running")]
     IN IF TreeKillSettles(error) = "resolve"
          THEN LET t == Untrack([tracked |-> childProcesses, procs |-> hit], p)
               IN /\ childProcesses' = t.tracked
                  /\ procs' = t.procs
                  /\ kills' = [kills EXCEPT ![p].pc = "done", ![p].result = "ok",
                                 ![p].outcome = IF error THEN "error" ELSE "killed"]
        ELSE IF kills[p].retry + 1 <= kills[p].retries
          THEN /\ kills' = [kills EXCEPT ![p].retry = @ + 1, ![p].requests = @ + 1,
                                         ![p].onExited = @ \/ procs[p].state = "exited"]
               /\ procs' = hit
               /\ UNCHANGED childProcesses
        ELSE /\ kills' = [kills EXCEPT ![p].pc = "done", ![p].result = "error",
                                       ![p].outcome = "error"]
             /\ procs' = hit
             /\ UNCHANGED childProcesses
  /\ UNCHANGED <<execs, sweep, fs, driverVars, unitVars>>

\* Array.from(childProcesses).map((childProcess) => sandbox.kill(childProcess, options)):
\* the kill calls of reset / cleanup, started in the set's insertion order.
RECURSIVE KillEach(_, _, _)
KillEach(t, ps, option) ==
  IF ps = << >> THEN t ELSE KillEach(KillCall(t, Head(ps), option), Tail(ps), option)

RECURSIVE InOrder(_, _)
InOrder(S, n) ==
  IF n = 0 THEN << >>
  ELSE IF n \in S THEN Append(InOrder(S, n - 1), n) ELSE InOrder(S, n - 1)

\* sandbox.reset / sandbox.cleanup up to the first await (lines 96-104, 117-125).
Sweep(op, option) ==
  /\ sweep.pc \in {"idle", "done"}
  /\ sweep.op # "cleanup"
  /\ sweep.n < MaxSweeps
  /\ \A p \in childProcesses : kills[p].pc = "idle"
  /\ LET t == KillEach([tracked |-> childProcesses, procs |-> procs, kills |-> kills],
                       InOrder(childProcesses, Len(procs)), option)
     IN /\ childProcesses' = t.tracked
        /\ procs' = t.procs
        /\ kills' = t.kills
        /\ sweep' = [NoSweep EXCEPT !.op = op, !.pc = "killing", !.kills = childProcesses,
                                    !.n = sweep.n + 1, !.retries = RetriesOf(option),
                                    !.before = fs]
  /\ UNCHANGED <<execs, fs, driverVars, unitVars>>

\* Promise.all over the kill calls: fulfilled when every one of them is.
KillsStarted(s, k) == \A p \in s.kills : k[p].pc # "idle"

KillsCompleted(s, k) == \A p \in s.kills : k[p].pc = "done" /\ k[p].result = "ok"

\* await Promise.all(...) of the kill calls returns. reset goes on to read the
\* directory (line 107), cleanup to remove context (line 127).
SweepKilled ==
  /\ sweep.pc = "killing"
  /\ KillsCompleted(sweep, kills)
  /\ sweep' = IF sweep.op = "reset" THEN [sweep EXCEPT !.pc = "readdir"]
                                    ELSE [sweep EXCEPT !.pc = "removing", !.todo = {"."}]
  /\ UNCHANGED <<childProcesses, procs, kills, execs, fs, driverVars, unitVars>>

\* reset, lines 106-113: fs.readdir(context) returns and a retry(fs.remove) is
\* started for every entry but node_modules; a context that does not exist makes
\* readdir, and reset with it, fail.
SweepReaddir ==
  /\ sweep.pc = "readdir"
  /\ sweep' = IF ~fs.exists THEN [sweep EXCEPT !.pc = "done", !.result = "error"]
              ELSE IF EntriesToRemove(fs) = {} THEN [sweep EXCEPT !.pc = "done", !.result = "ok"]
              ELSE [sweep EXCEPT !.pc = "removing", !.todo = EntriesToRemove(fs)]
  /\ UNCHANGED <<childProcesses, procs, kills, execs, fs, driverVars, unitVars>>

\* One of the fs.remove calls of reset (line 111) or cleanup (line 127) succeeds;
\* with the last of them the operation completes.
SweepRemoved(x) ==
  /\ sweep.pc = "removing"
  /\ x \in sweep.todo
  /\ fs' = FsRemove(fs, IF x = "." THEN << >> ELSE << x >>)
  /\ sweep' = IF sweep.todo = {x}
                THEN [sweep EXCEPT !.todo = {}, !.pc = "done", !.result = "ok"]
                ELSE [sweep EXCEPT !.todo = @ \ {x}]
  /\ UNCHANGED <<childProcesses, procs, kills, execs, driverVars, unitVars>>

\* One of the fs.remove calls fails: its retry runs it again after the delay, or,
\* with its attempts used up, throws, and reset or cleanup fails.
SweepRemoveFailed(x) ==
  /\ sweep.pc = "removing"
  /\ x \in sweep.todo
  /\ sweep' = IF LoopContinues(sweep.fails[x] + 2, sweep.retries)
                THEN [sweep EXCEPT !.fails[x] = @ + 1]
                ELSE [sweep EXCEPT !.fails[x] = @ + 1, !.todo = {}, !.pc = "done",
                                   !.result = "error"]
  /\ UNCHANGED <<childProcesses, procs, kills, execs, fs, driverVars, unitVars>>

\* The caller works on the sandbox between resets, and not after cleanup.
CallerMayWork == sweep.pc \in {"idle", "done"} /\ sweep.op # "cleanup"

WritePaths == { <<"a">>, <<"b">>, <<"node_modules", "m">> }
RemovePaths == { <<"a">>, <<"node_modules">>, <<"node_modules", "m">>, <<".">> }
Fixtures == { {"a"}, {"a", "b"} }

\* sandbox.write(path, content), lines 226-257: mkdirp of the directory of the
\* path when it does not exist, then writeFile.
Write(path) ==
  /\ CallerMayWork
  /\ LET realPath == Resolve(path)
         dirPath == Dirname(realPath)
         pathExists == fs.exists /\ (dirPath = << >> \/ dirPath[1] \in fs.entries)
     IN fs' = FsWriteFile(IF pathExists THEN fs ELSE FsMkdirp(fs, dirPath), realPath)
  /\ UNCHANGED <<childProcesses, procs, kills, execs, sweep, driverVars, unitVars>>

\* sandbox.remove(path), lines 283-287.
Remove(path) ==
  /\ CallerMayWork
  /\ fs' = FsRemove(fs, Resolve(path))
  /\ UNCHANGED <<childProcesses, procs, kills, execs, sweep, driverVars, unitVars>>

\* sandbox.load(directory), lines 131-133: fs.copy(directory, context) copies the
\* entries of the fixture into context, which it creates when missing.
Load(fixture) ==
  /\ CallerMayWork
  /\ fs' = [fs EXCEPT !.exists = TRUE, !.entries = @ \cup fixture]
  /\ UNCHANGED <<childProcesses, procs, kills, execs, sweep, driverVars, unitVars>>

\* The life of a sandbox's directory: the caller's file operations, the children
\* it spawns (long-running ones, which end only when killed), reset and cleanup.
NextFiles ==
  \/ \E started \in BOOLEAN : Spawn(started)
  \/ \E p \in 1..MaxProcs, error \in BOOLEAN : TreeKillDone(p, error)
  \/ \E op \in {"reset", "cleanup"} : Sweep(op, 1)
  \/ SweepKilled
  \/ SweepReaddir
  \/ \E x \in Targets : SweepRemoved(x)
  \/ \E x \in Targets : SweepRemoveFailed(x)
  \/ \E path \in WritePaths : Write(path)
  \/ \E path \in RemovePaths : Remove(path)
  \/ \E fixture \in Fixtures : Load(fixture)

SpecFiles == Init /\ [][NextFiles]_vars

NextSandbox ==
  \/ \E started \in BOOLEAN : Spawn(started)
  \/ \E p \in 1..MaxProcs : ProcExit(p)
  \/ \E p \in 1..MaxProcs : HandleKill(p)
  \/ \E fail \in BOOLEAN, option \in {0, 2} : ExecStart(fail, option)
  \/ \E p \in 1..MaxProcs, error \in BOOLEAN : ExecComplete(p, error, <<"o">>, <<"e">>)
  \/ \E e \in 1..MaxProcs : ExecRetry(e)
  \/ \E p \in 1..MaxProcs : Kill(p, 0)
  \/ \E p \in 1..MaxProcs, error \in BOOLEAN : TreeKillDone(p, error)
  \/ \E op \in {"reset", "cleanup"} : Sweep(op, 0)
  \/ SweepKilled

SpecSandbox == Init /\ [][NextSandbox]_vars

\* sandbox.exec called before the first reset or cleanup of the sandbox.
ExecBeforeTeardown(fail, option) ==
  /\ sweep.op = "none"
  /\ ExecStart(fail, option)

\* exec calls whose runs reset or cleanup then finds in the tracked set: the
\* caller starts its execs before it calls reset or cleanup and none after, and
\* reset and cleanup run to their end.
NextTeardown ==
  \/ \E fail \in BOOLEAN, option \in {0, 2} : ExecBeforeTeardown(fail, option)
  \/ \E p \in 1..MaxProcs, error \in BOOLEAN : ExecComplete(p, error, <<"o">>, <<"e">>)
  \/ \E e \in 1..MaxProcs : ExecRetry(e)
  \/ \E p \in 1..MaxProcs, error \in BOOLEAN : TreeKillDone(p, error)
  \/ \E op \in {"reset", "cleanup"} : Sweep(op, 1)
  \/ SweepKilled
  \/ SweepReaddir
  \/ \E x \in Targets : SweepRemoved(x)

SpecTeardown == Init /\ [][NextTeardown]_vars

\* Callers of sandbox.exec and the commands they run.
NextExec ==
  \/ \E fail \in BOOLEAN, option \in 0..2 : ExecStart(fail, option)
  \/ \E p \in 1..MaxProcs, error \in BOOLEAN, output \in ExecOutputs :
       ExecComplete(p, error, output[1], output[2])
  \/ \E e \in 1..MaxProcs : ExecRetry(e)

SpecExec == Init /\ [][NextExec]_vars

(***************************************************************************)
(* Properties of the sandbox's directory.                                  *)
(***************************************************************************)
\* The step completes a reset or cleanup successfully.
Completes(op) ==
  sweep.pc # "done" /\ sweep'.pc = "done" /\ sweep'.op = op /\ sweep'.result = "ok"

\* C18: when a reset completes, context exists, holds no top-level entry other
\* than node_modules, and node_modules and what it holds are as they were when
\* reset was called.
C18_ResetLeavesOnlyNodeModules ==
  [][Completes("reset")
       => /\ fs'.exists
          /\ fs'.entries \subseteq {"node_modules"}
          /\ "node_modules" \in fs'.entries <=> "node_modules" \in sweep'.before.entries
          /\ fs'.modules = sweep'.before.modules]_vars

C18_Witness ==
  /\ sweep.op = "reset" /\ sweep.pc = "done" /\ sweep.result = "ok"
  /\ sweep.before.entries = {"a", "b", "node_modules"} /\ sweep.before.modules = {"m"}
  /\ fs = [exists |-> TRUE, entries |-> {"node_modules"}, modules |-> {"m"}]

\* C19: context exists in every state until a cleanup removes it, whatever the
\* caller wrote, removed, loaded or reset before; once a cleanup has completed it
\* does not exist.
C19_ContextExistsUntilCleanup ==
  /\ sweep.op # "cleanup" => fs.exists
  /\ (sweep.op = "cleanup" /\ sweep.pc = "done" /\ sweep.result = "ok") => ~fs.exists

\* C20: reset and cleanup call kill on every child that is tracked when they are
\* called, and while one of those kill calls has not completed nothing has been
\* removed: the directory is as it was at the call.
C20_RemovalWaitsForKills ==
  /\ [][(sweep'.n = sweep.n + 1)
          => /\ sweep'.kills = childProcesses
             /\ \A p \in childProcesses : kills[p].pc = "idle" /\ kills'[p].pc # "idle"]_vars
  /\ [](\A p \in sweep.kills :
           kills[p].pc # "done" => sweep.pc = "killing" /\ fs = sweep.before)
  /\ [](sweep.pc \in {"readdir", "removing", "done"}
           => \A p \in sweep.kills : kills[p].pc = "done")

C20_Witness ==
  /\ sweep.pc = "done" /\ sweep.op = "cleanup" /\ sweep.result = "ok"
  /\ sweep.kills = {1, 2}
  /\ kills[1].outcome = "killed" /\ kills[2].outcome = "killed"
  /\ sweep.before.entries # {} /\ ~fs.exists

(***************************************************************************)
(* Properties of the sandbox's process tracking.                           *)
(***************************************************************************)
\* C2: a child that has exited and whose kill call has completed, in whichever
\* order the exit event and the end of the kill came, is not in the tracked set;
\* it was removed exactly once (the second delete removed nothing) and the kill
\* call raised no error.
C2_ExitAndKillConvergeOnUntracked ==
  \A p \in 1..Len(procs) :
    (kills[p].pc = "done" /\ procs[p].state = "exited")
      => /\ p \notin childProcesses
         /\ procs[p].removals = 1
         /\ kills[p].result = "ok"

C2_Witness ==
  \E p \in 1..Len(procs) :
    /\ kills[p].pc = "done" /\ kills[p].raced
    /\ procs[p].state = "exited" /\ ~procs[p].signalled
    /\ p \notin childProcesses

\* C3: the tracked set holds no child that has exited, and every child created by
\* exec or spawn is in it from its creation until its exit or completion event,
\* or until a kill call on it has completed.
C3_TrackedSetHoldsNoExitedChild ==
  \A p \in 1..Len(procs) :
    /\ p \in childProcesses => procs[p].state # "exited"
    /\ p \notin childProcesses => (procs[p].state = "exited" \/ kills[p].pc = "done")

C3_Witness ==
  \E p, q \in 1..Len(procs) :
    /\ procs[p].kind = "exec" /\ procs[p].state = "exited" /\ p \notin childProcesses
    /\ procs[q].kind = "spawn" /\ procs[q].state = "exited" /\ q \notin childProcesses
    /\ kills[p].pc = "idle" /\ kills[q].pc = "idle"

\* C4: a kill call that has completed has completed successfully and has left the
\* child out of the tracked set, whether treeKill succeeded, reported an error
\* (which is only logged) or was skipped.
C4_KillCompletesAndUntracks ==
  \A p \in 1..Len(procs) :
    kills[p].pc = "done"
      => /\ kills[p].result = "ok"
         /\ kills[p].outcome \in {"killed", "error", "skipped"}
         /\ p \notin childProcesses

C4_Witness ==
  \E p, q \in 1..Len(procs) :
    /\ kills[p].pc = "done" /\ kills[p].outcome = "error" /\ procs[p].state = "running"
    /\ kills[q].pc = "done" /\ kills[q].outcome = "skipped"

\* C5: no kill call has asked treeKill to terminate a child that had already exited.
C5_NoTreeKillOfExitedChild ==
  \A p \in 1..Len(procs) : ~kills[p].onExited


(***************************************************************************)
(* Properties of sandbox.patch.                                            *)
(***************************************************************************)
\* The patch call has completed and no write of the caller landed during it.
PatchedAlone == pf.call.pc = "done" /\ pf.call.clean

\* The call just completed repeats the arguments of the call before it, which
\* succeeded, and no write of the caller landed since that one started.
PatchedAgain ==
  /\ PatchedAlone
  /\ pf.prev.result = "ok"
  /\ pf.prev.clean
  /\ pf.prev.search = pf.call.search
  /\ pf.prev.replacement = pf.call.replacement

\* C21 as stated: after a successful patch, a second patch with the same
\* arguments fails with PatchTargetNotFound, whatever the content and the
\* replacement.
C21_SecondPatchFails == PatchedAgain => pf.call.result = "PatchTargetNotFound"

\* C21: after a successful patch, a second patch with the same arguments fails
\* with PatchTargetNotFound exactly when the content the first patch wrote no
\* longer contains search; otherwise it succeeds again.
C21_SecondPatchFailsIffSearchGone ==
  PatchedAgain =>
    (pf.call.result = "PatchTargetNotFound" <=> ~Includes(pf.prev.written, pf.call.search))

C21_Witness == PatchedAgain /\ pf.call.result = "PatchTargetNotFound"

\* The content with the text of its first occurrence of search exchanged for text.
FirstOccurrenceReplaced(content, search, text) ==
  LET index == IndexOf(content, search)
  IN SubSeq(content, 1, index) \o text \o Slice(content, index + Len(search))

\* C22: a successful patch leaves the file holding its content with only the
\* first occurrence of search replaced by replacement, everything else as it was.
C22_ReplacesFirstOccurrenceOnly ==
  (PatchedAlone /\ pf.call.result = "ok") =>
    pf.file.content =
      FirstOccurrenceReplaced(pf.call.before.content, pf.call.search, pf.call.replacement)

\* C23: a patch whose search is not in the content fails with
\* PatchTargetNotFound after a single read, attempts no write and leaves the
\* file as it was.
C23_MissingSearchFailsWithoutWrite ==
  (pf.call.pc = "done" /\ ~Includes(pf.call.read, pf.call.search)) =>
    /\ pf.call.result = "PatchTargetNotFound"
    /\ pf.call.reads = 1
    /\ pf.call.writes = 0
    /\ pf.call.clean => pf.file = pf.call.before

C23_Witness ==
  /\ PatchedAlone
  /\ pf.call.result = "PatchTargetNotFound"
  /\ pf.call.search = <<"Z">>
  /\ pf.file = pf.call.before


(***************************************************************************)
(* Properties of sandbox.exec.                                             *)
(***************************************************************************)
\* C24: an exec call whose command ended with an error settles with the merged
\* stdout and stderr of its last run: rejected when fail is not set, resolved
\* when it is set, and then after exactly one run of the command.
C24_FailFlagDecidesOutcome ==
  \A e \in 1..Len(execs) :
    (execs[e].pc = "done" /\ execs[e].error) =>
      /\ execs[e].results = StripAnsi(execs[e].stdout \o execs[e].stderr)
      /\ execs[e].fail => (execs[e].result = "resolved" /\ execs[e].retry = 1)
      /\ ~execs[e].fail => execs[e].result = "rejected"

C24_Witness ==
  /\ Len(execs) = 2
  /\ execs[1].pc = "done" /\ execs[1].error /\ execs[1].fail
  /\ execs[1].result = "resolved" /\ execs[1].results = <<"o", "e">>
  /\ execs[2].pc = "done" /\ execs[2].error /\ ~execs[2].fail
  /\ execs[2].result = "rejected" /\ execs[2].results = <<"o">>


(***************************************************************************)
(* Properties of sandbox.install.                                          *)
(***************************************************************************)
\* C25: an install into a sandbox without package.json fails with
\* MissingManifest at once: nothing has been written, the lock cache has been
\* neither read nor written and no command has been started.
C25_MissingManifestFailsFirst ==
  (inst.call.manager # "none" /\ ~inst.call.before.exists) =>
    /\ inst.call.pc = "done"
    /\ inst.call.result = "MissingManifest"
    /\ inst.call.trace = << >>
    /\ inst.cache = inst.call.cacheBefore

C25_Witness ==
  /\ inst.call.result = "MissingManifest"
  /\ inst.call.lockDirectory
  /\ ~inst.manifest.exists

\* The sections an install call is given specs for, and the entries it is given.
Targeted(variant, arg, section) ==
  IF variant = "overwrites" THEN arg[section].def ELSE section = "dependencies"

Supplied(variant, arg, section) ==
  CASE variant = "fixed" -> Spread(arg.fixed, arg.dependencies)
    [] variant = "packages" -> SetPackages({}, arg)
    [] variant = "overwrites" -> SetPackages({}, arg[section].packages)

\* The install call has written the manifest, and nothing else wrote it since.
ManifestWritten ==
  inst.call.pc \in {"loading", "executing", "storing"} /\ inst.call.before.exists

StartedWithCachedLock ==
  /\ inst.call.pc = "executing"
  /\ inst.call.lockFile.def
  /\ CacheHas(inst.call.cacheBefore, inst.call.lockFile.key)

\* C27 as stated: when the lock directory holds a lock file for the install's
\* key, the manager's lock file in the sandbox is a copy of it by the time the
\* command is started.
C27_CachedLockCopiedBeforeCommand ==
  StartedWithCachedLock =>
    /\ inst.call.atExec.exists
    /\ inst.call.atExec.content = CacheGet(inst.call.cacheBefore, inst.call.lockFile.key)
    /\ inst.call.trace = <<"write package.json", "read cache", "write lock file", "exec">>

\* C27: when the lock directory holds a lock file for the install's key, its
\* text, with the line endings normalised as sandbox.write does, has been written
\* to the manager's lock file in the sandbox before the command is started.
C27_CachedLockWrittenBeforeCommand ==
  StartedWithCachedLock =>
    /\ inst.call.atExec.exists
    /\ inst.call.atExec.content =
         NormalizeEol(CacheGet(inst.call.cacheBefore, inst.call.lockFile.key))
    /\ inst.call.trace = <<"write package.json", "read cache", "write lock file", "exec">>

C27_Witness ==
  /\ StartedWithCachedLock
  /\ inst.call.manager = "npm"
  /\ CacheGet(inst.call.cacheBefore, inst.call.lockFile.key) = <<"m", "\r", "\n">>
  /\ inst.locks["package-lock.json"] = [exists |-> TRUE, content |-> <<"m", "\n">>]

\* C28: in the sandbox module, once an install whose command succeeded and left
\* a lock file has completed, the lock directory holds exactly that file's
\* content under the install's key; an install whose command failed leaves the
\* lock directory as it was.
C28_CacheHoldsLeftLockFile ==
  (inst.variant = "fixed" /\ inst.call.pc = "done" /\ inst.call.lockFile.def) =>
    /\ (inst.call.result = "ok" /\ inst.call.left.exists) =>
         /\ CacheHas(inst.cache, inst.call.lockFile.key)
         /\ CacheGet(inst.cache, inst.call.lockFile.key) = inst.call.left.content
    /\ inst.call.result = "rejected" =>
         /\ inst.cache = inst.call.cacheBefore
         /\ \A i \in 1..Len(inst.call.trace) : inst.call.trace[i] # "write cache"

C28_Witness ==
  /\ inst.variant = "fixed"
  /\ inst.call.pc = "done"
  /\ inst.call.result = "ok"
  /\ inst.call.lockFile.def
  /\ inst.call.left = [exists |-> TRUE, content |-> <<"m", "\r", "\n">>]
  /\ CacheGet(inst.cache, inst.call.lockFile.key) = <<"m", "\r", "\n">>
  /\ inst.call.atExec = [exists |-> TRUE, content |-> <<"l", "\n">>]

\* The specs of an install call that are immutable: the dependencies argument of
\* the sandbox module, the packages flagged immutable in async.ts.
ImmutableSpecs(variant, arg) ==
  IF variant = "fixed" THEN arg.dependencies ELSE SelectSeq(arg, LAMBDA pkg : pkg.immutable)

\* C29: two installs with a lock directory name the same lock file whenever
\* they agree on the manager, on the immutable specs and on the dependencies
\* and devDependencies of the manifest as it was before each install.
C29_KeyDependsOnlyOnImmutableInputs ==
  (/\ inst.call.lockFile.def /\ inst.prev.lockFile.def
   /\ inst.call.manager = inst.prev.manager
   /\ ImmutableSpecs(inst.variant, inst.call.arg) = ImmutableSpecs(inst.variant, inst.prev.arg)
   /\ inst.call.before.content.dependencies = inst.prev.before.content.dependencies
   /\ inst.call.before.content.devDependencies = inst.prev.before.content.devDependencies)
    => inst.call.lockFile.key = inst.prev.lockFile.key


(***************************************************************************)
(* Properties of sandbox.kill under treeKill errors.                       *)
(***************************************************************************)
\* C30: a kill call whose treeKill reported an error to the end has requested
\* the termination as many times as its retry budget allows (3 by default).
C30_KillReattemptsOnTreeKillError ==
  \A p \in 1..Len(kills) :
    (kills[p].pc = "done" /\ kills[p].outcome = "error") =>
      kills[p].requests = kills[p].retries


(***************************************************************************)
(* Properties of the runs of sandbox.exec.                                 *)
(***************************************************************************)
\* The children launched for the exec call e, and those of them still running.
RunsOf(e) == { p \in 1..Len(procs) : procs[p].kind = "exec" /\ procs[p].exec = e }
AliveRunsOf(e) == { p \in RunsOf(e) : procs[p].state = "running" }

\* C31: an exec call launches its command once per run, at most retries times
\* and one run at a time; it is rejected only with all its runs used; a
\* run's child is tracked while it runs, unless a kill call took it, and is
\* untracked once it has completed.
C31_ExecRetriesWholeRunsOneAtATime ==
  \A e \in 1..Len(execs) :
    /\ Cardinality(RunsOf(e)) = execs[e].retry
    /\ execs[e].retry <= execs[e].retries
    /\ Cardinality(AliveRunsOf(e)) <= 1
    /\ execs[e].pc = "running" <=> AliveRunsOf(e) # {}
    /\ execs[e].result = "rejected" => (execs[e].retry = execs[e].retries /\ ~execs[e].fail)
    /\ \A p \in RunsOf(e) :
         /\ (procs[p].state = "running" /\ kills[p].pc = "idle") => p \in childProcesses
         /\ procs[p].state # "running" => p \notin childProcesses

C31_Witness ==
  /\ Len(execs) = 1
  /\ execs[1].result = "rejected"
  /\ execs[1].retry = 2
  /\ Cardinality(RunsOf(1)) = 2
  /\ childProcesses = {}


(***************************************************************************)
(* Properties of the matcher's invocations.                                *)
(***************************************************************************)
\* A matcher that returns nothing for a chunk in which it finds no match.
ConsumesMisses(matcher) == matcher.kind = "includes" \/ matcher.miss = "undefined"

\* The place in `buffer`, in arrival order, of the first chunk on which the
\* matcher takes the listener out of pending (Len(buffer) + 1: none).
FirstTransition(matcher, buffer) ==
  LET hits == { i \in 1..Len(buffer) : CallMatcher(matcher, buffer[i]).calls # << >> }
  IN IF hits = {} THEN Len(buffer) + 1 ELSE SetMin(hits)

\* C32: apply with a matcher on a pending listener hands the matcher the
\* buffered chunks in arrival order, each once, up to the first one on which
\* the listener leaves pending and none after it; the chunks before that one,
\* which produced no match, are gone from the buffer and the chunks after it
\* stay as they were. An ingest on a listener with a matcher invokes the
\* matcher once, on the new chunk, while the listener is pending; once it is
\* not, the matcher is not invoked and the chunk is appended as it is.
C32_MatcherSeesChunksInOrderOnce ==
  [][/\ (IsCall("apply") /\ bl'.bound.on /\ applies'[Len(applies')].given)
          => LET matcher == bl'.bound.matcher
                 k == FirstTransition(matcher, bl.buffer)
                 n == Len(bl.buffer)
             IN IF bl.status = "pending"
                  THEN /\ mcalls' = mcalls + (IF k <= n THEN k ELSE n)
                       /\ ConsumesMisses(matcher) =>
                            bl'.buffer =
                              (IF k <= n /\ CallMatcher(matcher, bl.buffer[k]).ret.def
                                 THEN << CallMatcher(matcher, bl.buffer[k]).ret.val >>
                                 ELSE << >>)
                              \o SubSeq(bl.buffer, k + 1, n)
                  ELSE mcalls' = mcalls /\ bl'.buffer = bl.buffer
     /\ (IsCall("ingest") /\ bl.bound.on)
          => IF bl.status = "pending"
               THEN mcalls' = mcalls + 1
               ELSE mcalls' = mcalls /\ bl'.buffer = Append(bl.buffer, lastCall'.arg)
     /\ (IsCall("resolve") \/ IsCall("reject")) => mcalls' = mcalls]_vars

C32_Witness ==
  /\ lastCall.op = "apply"
  /\ bl.bound.on
  /\ ConsumesMisses(bl.bound.matcher)
  /\ bl.status = "resolved"
  /\ mcalls = 2
  /\ nOps = 4
  /\ bl.buffer = << <<"b">>, <<"a">> >>


(***************************************************************************)
(* Properties of the two outputs of a process driver.                      *)
(***************************************************************************)
Other(o) == IF o = "stdout" THEN "stderr" ELSE "stdout"

\* The waits made on the output o, in the order of their calls.
WaitsOn(ws, o) == SelectSeq(ws, LAMBDA wait : wait.output = o)

\* C33: a wait call on one output, a chunk arriving on it and the timer of a
\* wait on it firing leave the other output's listener (its buffer, status and
\* attached waiter), its waits and its unconsumed text as they were.
C33_OutputsAreIndependent ==
  [][\A o \in Outputs :
       ((\E pattern \in Patterns : WaitFor(o, pattern))
          \/ (\E chunk \in Chunks : Ingest(o, chunk))
          \/ (\E w \in 1..Len(waits) : waits[w].output = o /\ Timeout(w)))
       => /\ listeners'[Other(o)] = listeners[Other(o)]
          /\ WaitsOn(waits', Other(o)) = WaitsOn(waits, Other(o))
          /\ unconsumed'[Other(o)] = unconsumed[Other(o)]]_vars

C33_Witness ==
  /\ Len(waits) = 2
  /\ waits[1].output = "stderr" /\ waits[1].promise = "pending"
  /\ listeners["stderr"].bound.on /\ listeners["stderr"].bound.waiter = 1
  /\ listeners["stderr"].status = "pending"
  /\ waits[2].output = "stdout" /\ waits[2].promise = "resolved"
  /\ listeners["stdout"].buffer = << <<"b">> >>


(***************************************************************************)
(* Properties of sandbox.write and sandbox.read.                           *)
(***************************************************************************)
\* The text with every occurrence of search, from the left, exchanged for text.
RECURSIVE ReplaceEvery(_, _, _)
ReplaceEvery(content, search, text) ==
  LET index == IndexOf(content, search)
  IN IF index = -1 THEN content
     ELSE SubSeq(content, 1, index) \o text
          \o ReplaceEvery(Slice(content, index + Len(search)), search, text)

\* C34: a text read of a file that sandbox.write has just written returns the
\* written text with every \r\n and then every \r left replaced by \n, and
\* writing that text back leaves the file's content as it is.
C34_ReadReturnsNormalisedWriteBackIsIdentity ==
  [][/\ (FileRead /\ pf.wrote.def)
          => pf'.got = Defined(ReplaceEvery(ReplaceEvery(pf.wrote.val, <<"\r", "\n">>, <<"\n">>),
                                            <<"\r">>, <<"\n">>))
     /\ FileWriteBack => pf'.file = pf.file]_vars

C34_Witness ==
  /\ pf.wrote = Defined(<<"\n", "\n">>)
  /\ pf.file.content = <<"\n", "\n">>
  /\ pf.n = 2
  /\ pf.call.pc = "idle"

\* reset or cleanup has run to its end and returned without an error.
SweepCompleted(s) == s.pc = "done" /\ s.result = "ok"

\* C35: once reset or cleanup has completed, with no exec or spawn issued by the
\* caller since it was called, the tracked set is empty, and no later step of
\* the sandbox creates a child process: an exec whose child the operation killed
\* does not launch its command again.
C35_NoChildAfterTeardown ==
  [][SweepCompleted(sweep')
       => /\ childProcesses' = {}
          /\ SweepCompleted(sweep) => Len(procs') = Len(procs)]_vars

\* The run of exec 1 that reset killed has failed, reset has completed, and the
\* retry of exec 1 has launched the command again: child 2 runs and is tracked.
C35_Relaunched ==
  /\ SweepCompleted(sweep)
  /\ sweep.kills = {1}
  /\ Len(procs) = 2
  /\ procs[2].exec = 1
  /\ procs[2].state = "running"
  /\ 2 \in childProcesses

\* The wait w2 is on the listener of its output: the listener is pending, its
\* resolve/reject closure variables and its rebound ingest are those of w2.
AttachedTo(L, w2, pattern) ==
  /\ L.status = "pending"
  /\ L.waiter = w2
  /\ L.bound = [on |-> TRUE, waiter |-> w2, matcher |-> IncludesMatcher(pattern)]

\* C36: when a wait w2 is started on an output while an earlier wait w1 on that
\* output is pending, w2 (still pending after its replay of the buffer) takes the
\* place of w1 on the listener; and a pending wait with a later wait on its
\* output is never resolved, and is rejected only by its own timer, with its own
\* timeout error.
C36_SecondWaitReplacesFirst ==
  [][\A w1 \in 1..Len(waits), w2 \in 1..Len(waits') :
       (/\ w1 < w2
        /\ waits'[w2].output = waits[w1].output
        /\ waits[w1].promise = "pending")
       => /\ waits'[w1].promise # "resolved"
          /\ waits'[w1].promise = "rejected"
               => /\ Timeout(w1)
                  /\ waits'[w1].error = TimeoutError(waits[w1].pattern, waits[w1].output)
          /\ (w2 = Len(waits) + 1 /\ waits'[w2].promise = "pending")
               => AttachedTo(listeners'[waits'[w2].output], w2, waits'[w2].pattern)]_vars

\* Two waits for the same pattern on stdout, the second started while the first
\* was pending: the chunk that holds the pattern has resolved the second, and the
\* first is pending still.
C36_Witness ==
  /\ Len(waits) = 2
  /\ waits[1].output = waits[2].output
  /\ waits[1].pattern = waits[2].pattern
  /\ waits[1].promise = "pending"
  /\ waits[2].promise = "resolved"
  /\ nChunks > 0

\* C37: a write by the caller that lands while a patch call is between its read
\* and its write-back leaves the call as it is, holding the content it read; and
\* the write-back makes the file the patched version of the content the call
\* read, whatever the file holds by then, so that the intervening write is lost.
C37_PatchWriteBackOverwritesInterveningWrite ==
  [][pf.call.pc = "waiting"
       => /\ pf'.call.pc \in {"waiting", "done"}
          /\ pf'.call.read = pf.call.read
          /\ pf'.call.pc = "done"
               => /\ pf'.call.result = "ok"
                  /\ pf'.file.content
                       = Replace(pf.call.read, pf.call.search, pf.call.replacement)]_vars

\* A patch call has completed whose write-back replaced a content other than the
\* one it had read: a write had landed in between, and what the file holds is
\* the patched version of the content read, not of the content written.
C37_Witness ==
  /\ pf.call.pc = "done"
  /\ pf.call.result = "ok"
  /\ ~pf.call.clean
  /\ pf.call.over # pf.call.read
  /\ pf.file.content = Replace(pf.call.read, pf.call.search, pf.call.replacement)
  /\ pf.file.content # Replace(pf.call.over, pf.call.search, pf.call.replacement)

\* C38: an install call made with a manager that is neither yarn nor npm, on a
\* sandbox that has its manifest, writes the manifest with the merged
\* dependencies and returns at once without an error: no command is executed,
\* the lock directory is neither read nor written, and no lock file is written.
C38_OtherManagerOnlyRewritesManifest ==
  [][(/\ inst'.n = inst.n + 1
      /\ inst'.call.manager \notin {"yarn", "npm"}
      /\ inst.manifest.exists)
     => /\ inst'.manifest
             = FsWriteText(inst.manifest,
                           Merge(inst'.variant, inst.manifest.content,
                                 inst'.call.arg).packageJSON)
        /\ inst'.call.pc = "done"
        /\ inst'.call.result = "ok"
        /\ inst'.call.trace = <<"write package.json">>
        /\ inst'.cache = inst.cache
        /\ inst'.locks = inst.locks]_vars

\* install("pnpm", ...) of the sandbox module, with a lock directory, has
\* returned: the manifest has the supplied dependency, and nothing else was done.
C38_Witness ==
  /\ inst.variant = "fixed"
  /\ inst.call.manager = "pnpm"
  /\ inst.call.lockDirectory
  /\ inst.call.result = "ok"
  /\ inst.call.trace = <<"write package.json">>
  /\ inst.manifest.exists
  /\ inst.manifest.content # inst.call.before.content

=============================================================================
